---- MODULE Spec2Model ----
(***************************************************************************)
(* Model of npipe::NamedPipe (both backends of src/NamedPipe.cpp) and of   *)
(* the part of the operating system it talks to: the file-system (pipe)    *)
(* namespace, the kernel side of a FIFO (buffer, open read ends, open      *)
(* write ends) and the kernel side of a Windows pipe instance.             *)
(*                                                                         *)
(* The specifications share the variables:                                 *)
(*   SpecLife     object lifecycle (POSIX): create, constructors, move,    *)
(*                destroy, destructor, interrupt, all on one thread;       *)
(*   SpecLifeWin  the same lifecycle on the Windows backend;               *)
(*   Spec         I/O on one created pipe (POSIX): a thread calling        *)
(*                read_blocking, a thread calling write and a thread       *)
(*                calling interrupt, one step per system call or atomic    *)
(*                access;                                                  *)
(*   SpecHist     Spec with a history of the interrupts made, the          *)
(*                Interrupts raised and the messages written;              *)
(*   SpecDestroy  Spec with a fourth thread that calls destroy();          *)
(*   SpecWin      I/O on one created pipe (Windows): the same four         *)
(*                threads;                                                 *)
(*   SpecFair     Spec with weak fairness of the reading and of the        *)
(*                writing thread;                                          *)
(*   SpecGuards   SpecDestroy with the descriptors the handle guards of    *)
(*                read_blocking and write open and release;                *)
(*   SpecEnv      Spec in an environment whose system calls may fail: a    *)
(*                finite pipe, poll that returns -1, read that fails;      *)
(*   SpecBoth     the program built for either backend, with the result    *)
(*                of each read kept;                                       *)
(*   SpecSessions the Windows reader and writer calling again and again,   *)
(*                with the messages written and returned kept.             *)
(*                                                                         *)
(* Environment assumptions, stated once: nothing but this program touches  *)
(* the paths; std::filesystem::remove and close succeed; SIGPIPE is        *)
(* ignored, so a write to a FIFO without read end fails with EPIPE.        *)
(* Outside SpecEnv and SpecBoth no signal handler runs during poll (poll   *)
(* does not fail), read fails only with EAGAIN, and the pipe has room for  *)
(* every message.                                                          *)
(***************************************************************************)
EXTENDS Integers, Sequences, FiniteSets, TLC

\* ------------------------------------------------------------- bounds ----
\* object slots of the lifecycle specification
NumObjects == 3

\* calls of read_blocking and of write, together
MaxCalls == 3

\* the largest timeout, in milliseconds
MaxTimeout == 2

\* bytes by which the longest message exceeds the drain buffer of read_blocking
MaxOver == 1

\* calls of interrupt() that the history counts
MaxInterrupts == 2

\* -------------------------------------------------- program constants ----
PIPE_WAIT_INTERVAL == 1

PIPE_WRITE_WAIT_INTERVAL == 1

PIPE_BUFFER_SIZE == 256

Objects == 1 .. NumObjects

\* tests/Meta.cpp metaPipeName, tests/IO.cpp pipeName
Paths == {"metaTestPipe", "ioTestPipe"}

\* a default-constructed std::filesystem::path
EmptyPath == ""

VARIABLES
    \* ---- operating system
    fs,          \* the paths that have an entry in the file system
    \* ---- NamedPipe objects
    alive,       \* alive[o]: object o is constructed and not yet destructed
    m_pipePath,  \* NamedPipe::m_pipePath
    m_break,     \* NamedPipe::m_break
    \* ---- history (not program state)
    lastOp,      \* the lifecycle operation that made the last step
    destroyed,   \* destroyed[o]: destroy() ran on o and nothing was moved into o since
    \* ---- kernel side of the FIFOs
    fifo,        \* fifo[p]: the bytes written and not yet read
    readEnds,    \* readEnds[p]: open descriptors of the read end
    writeEnds,   \* writeEnds[p]: open descriptors of the write end
    \* ---- the threads of the I/O specification
    rd,          \* the thread in read_blocking: its position and locals
    wr,          \* the thread in write: its position and locals
    \* ---- Windows backend
    m_handle,    \* NamedPipe::m_handle
    wn,          \* the thread in read_blocking (Windows)
    ww,          \* the thread in write (Windows)
    inst,        \* the kernel side of the pipe instance that create() made
    \* ---- a thread calling destroy() beside the I/O threads
    ds,          \* its position
    \* ---- history of the I/O threads (not program state)
    hist,
    guards       \* the use the calls made of their FileHandleWrapper objects

lifeVars == <<alive, lastOp, destroyed>>

ioVars == <<fifo, readEnds, writeEnds, rd, wr>>

winIoVars == <<wn, ww, inst>>

winVars == <<m_handle, wn, ww, inst>>

sharedVars == <<ds, hist, guards>>

vars == <<fs, alive, m_pipePath, m_break, lastOp, destroyed, fifo, readEnds, writeEnds, rd, wr,
          m_handle, wn, ww, inst, ds, hist, guards>>

\* --------------------------------------------------- NamedPipe queries ----

\* NamedPipe::exists: std::filesystem::exists(pipePath)
exists(pipePath) == pipePath \in fs

\* NamedPipe::operator bool
valid(o) == m_pipePath[o] # EmptyPath

\* NamedPipe::getPath
getPath(o) == m_pipePath[o]

\* ------------------------------------------------- lifecycle operations ----

\* again: the operation is a destroy() of an object destroy() already ran on
Op(op, o, p, res) == [op |-> op, obj |-> o, path |-> p, result |-> res, again |-> FALSE]

\* mkfifo(path, S_IRUSR | S_IWUSR): 0, or -1 (EEXIST) when an entry exists
mkfifo(pipePath) == IF pipePath \in fs THEN -1 ELSE 0

\* create's test of the result of mkfifo
CreateFailed_ignoresResult(rc) == FALSE

CreateFailed(rc) == rc # 0

\* NamedPipe::NamedPipe(const std::filesystem::path &path) : m_pipePath(path)
Constructed_dropsPath(path) == EmptyPath

Constructed(path) == path

\* NamedPipe::create into the not yet constructed object o (the returned
\* prvalue initialises the caller's object, no move happens)
create(o, pipePath) ==
    /\ ~alive[o]
    /\ IF CreateFailed(mkfifo(pipePath))
         THEN /\ lastOp' = Op("create", o, pipePath, "Create")
              /\ UNCHANGED <<fs, alive, m_pipePath, m_break, destroyed>>
         ELSE /\ fs' = fs \cup {pipePath}
              /\ alive' = [alive EXCEPT ![o] = TRUE]
              /\ m_pipePath' = [m_pipePath EXCEPT ![o] = Constructed(pipePath)]
              /\ m_break' = [m_break EXCEPT ![o] = FALSE]
              /\ destroyed' = [destroyed EXCEPT ![o] = FALSE]
              /\ lastOp' = Op("create", o, pipePath, "ok")

\* NamedPipe() = default
DefaultConstruct(o) ==
    /\ ~alive[o]
    /\ alive' = [alive EXCEPT ![o] = TRUE]
    /\ m_pipePath' = [m_pipePath EXCEPT ![o] = EmptyPath]
    /\ m_break' = [m_break EXCEPT ![o] = FALSE]
    /\ destroyed' = [destroyed EXCEPT ![o] = FALSE]
    /\ lastOp' = Op("NamedPipe", o, EmptyPath, "ok")
    /\ UNCHANGED fs

\* The paths after NamedPipe(NamedPipe &&other) / operator=(NamedPipe &&other):
\* this takes other's path, then other's path is cleared (for this == &other
\* the clear comes last, the path ends empty)
MovedPaths_keepsSource(d, s) == [m_pipePath EXCEPT ![d] = m_pipePath[s]]

MovedPaths(d, s) == [[m_pipePath EXCEPT ![d] = m_pipePath[s]] EXCEPT ![s] = EmptyPath]

\* NamedPipe(NamedPipe &&other): d is constructed from s
MoveConstruct(d, s) ==
    /\ ~alive[d]
    /\ alive[s]
    /\ alive' = [alive EXCEPT ![d] = TRUE]
    /\ m_pipePath' = MovedPaths(d, s)
    /\ m_break' = [m_break EXCEPT ![d] = FALSE]
    /\ destroyed' = [destroyed EXCEPT ![d] = FALSE]
    /\ lastOp' = Op("move", d, m_pipePath[s], "ok")
    /\ UNCHANGED fs

\* NamedPipe::operator=(NamedPipe &&other): d = std::move(s)
MoveAssign(d, s) ==
    /\ alive[d]
    /\ alive[s]
    /\ m_pipePath' = MovedPaths(d, s)
    /\ destroyed' = [destroyed EXCEPT ![d] = destroyed[d] /\ m_pipePath[s] = EmptyPath]
    /\ lastOp' = Op("operator=", d, m_pipePath[s], "ok")
    /\ UNCHANGED <<fs, alive, m_break>>

\* The file system after std::filesystem::remove(m_pipePath, errorCode),
\* which destroy() calls only for a non-empty path
RemovedFs_keepsEntry(o) == fs

RemovedFs(o) == IF m_pipePath[o] # EmptyPath THEN fs \ {m_pipePath[o]} ELSE fs

\* m_pipePath after destroy(): cleared
DestroyedPaths_keepsPath(o) == m_pipePath

DestroyedPaths(o) == [m_pipePath EXCEPT ![o] = EmptyPath]

\* NamedPipe::destroy
destroy(o) ==
    /\ alive[o]
    /\ m_break' = [m_break EXCEPT ![o] = TRUE]
    /\ fs' = RemovedFs(o)
    /\ m_pipePath' = DestroyedPaths(o)
    /\ destroyed' = [destroyed EXCEPT ![o] = TRUE]
    /\ lastOp' = [Op("destroy", o, m_pipePath[o], "ok") EXCEPT !.again = destroyed[o]]
    /\ UNCHANGED alive

\* NamedPipe::~NamedPipe: destroy(), then the object is gone
Destructor(o) ==
    /\ alive[o]
    /\ fs' = RemovedFs(o)
    /\ m_pipePath' = DestroyedPaths(o)
    /\ m_break' = [m_break EXCEPT ![o] = FALSE]
    /\ destroyed' = [destroyed EXCEPT ![o] = FALSE]
    /\ alive' = [alive EXCEPT ![o] = FALSE]
    /\ lastOp' = [Op("~NamedPipe", o, m_pipePath[o], "ok") EXCEPT !.again = destroyed[o]]

\* NamedPipe::interrupt on object o
interruptOf(o) ==
    /\ alive[o]
    /\ m_break' = [m_break EXCEPT ![o] = TRUE]
    /\ lastOp' = Op("interrupt", o, m_pipePath[o], "ok")
    /\ UNCHANGED <<fs, alive, m_pipePath, destroyed>>

\* ---------------------------------- lifecycle operations, Windows backend ----
\* fs is the pipe namespace: the names that have a pipe instance. A handle is
\* modelled by the name of the instance it refers to (create allows one
\* instance per name).
INVALID_HANDLE_VALUE == "INVALID_HANDLE_VALUE"

\* create and write: a path without parent directory is put into \\.\pipe
Normalized(pipePath) ==
    IF pipePath \in Paths THEN "\\\\.\\pipe\\" \o pipePath ELSE pipePath

WinPaths == Paths \cup {Normalized(p) : p \in Paths}

\* CreateNamedPipe(..., FILE_FLAG_FIRST_PIPE_INSTANCE, ..., 1, ...): a handle
\* to the new instance, or INVALID_HANDLE_VALUE when the name has an instance
CreateNamedPipe(name) == IF name \in fs THEN INVALID_HANDLE_VALUE ELSE name

\* CloseHandle(m_handle) of the server end: the instance and its name go
ClosedNamespace(o) ==
    IF m_pipePath[o] # EmptyPath THEN fs \ {m_handle[o]} ELSE fs

\* NamedPipe::create (Windows) into the not yet constructed object o
WinCreate(o, pipePath) ==
    /\ ~alive[o]
    /\ LET name == Normalized(pipePath)
           pipeHandle == CreateNamedPipe(name) IN
         IF pipeHandle = INVALID_HANDLE_VALUE
           THEN /\ lastOp' = Op("create", o, name, "Create")
                /\ UNCHANGED <<fs, alive, m_pipePath, m_break, destroyed, m_handle>>
           ELSE /\ fs' = fs \cup {name}
                /\ alive' = [alive EXCEPT ![o] = TRUE]
                /\ m_pipePath' = [m_pipePath EXCEPT ![o] = Constructed(name)]
                /\ m_handle' = [m_handle EXCEPT ![o] = pipeHandle]
                /\ m_break' = [m_break EXCEPT ![o] = FALSE]
                /\ destroyed' = [destroyed EXCEPT ![o] = FALSE]
                /\ lastOp' = Op("create", o, name, "ok")

\* the handles after a move: this takes other's handle, other's handle is
\* set to INVALID_HANDLE_VALUE; the handle this held before is not closed
MovedHandles(d, s) ==
    [[m_handle EXCEPT ![d] = m_handle[s]] EXCEPT ![s] = INVALID_HANDLE_VALUE]

\* NamedPipe(NamedPipe &&other) (Windows)
WinMoveConstruct(d, s) ==
    /\ ~alive[d]
    /\ alive[s]
    /\ alive' = [alive EXCEPT ![d] = TRUE]
    /\ m_pipePath' = MovedPaths(d, s)
    /\ m_handle' = MovedHandles(d, s)
    /\ m_break' = [m_break EXCEPT ![d] = FALSE]
    /\ destroyed' = [destroyed EXCEPT ![d] = FALSE]
    /\ lastOp' = Op("move", d, m_pipePath[s], "ok")
    /\ UNCHANGED fs

\* m_break after operator= (Windows): m_break.store(other.m_break.load()),
\* then other.m_break.store(true) (for this == &other the second store wins)
WinAssignedBreak(d, s) ==
    [[m_break EXCEPT ![d] = m_break[s]] EXCEPT ![s] = TRUE]

\* NamedPipe::operator=(NamedPipe &&other) (Windows)
WinMoveAssign(d, s) ==
    /\ alive[d]
    /\ alive[s]
    /\ m_pipePath' = MovedPaths(d, s)
    /\ m_handle' = MovedHandles(d, s)
    /\ m_break' = WinAssignedBreak(d, s)
    /\ destroyed' = [destroyed EXCEPT ![d] = destroyed[d] /\ m_pipePath[s] = EmptyPath]
    /\ lastOp' = Op("operator=", d, m_pipePath[s], "ok")
    /\ UNCHANGED <<fs, alive>>

\* NamedPipe::destroy (Windows)
WinDestroy(o) ==
    /\ alive[o]
    /\ m_break' = [m_break EXCEPT ![o] = TRUE]
    /\ fs' = ClosedNamespace(o)
    /\ m_pipePath' = DestroyedPaths(o)
    /\ m_handle' = IF m_pipePath[o] # EmptyPath
                     THEN [m_handle EXCEPT ![o] = INVALID_HANDLE_VALUE]
                     ELSE m_handle
    /\ destroyed' = [destroyed EXCEPT ![o] = TRUE]
    /\ lastOp' = [Op("destroy", o, m_pipePath[o], "ok") EXCEPT !.again = destroyed[o]]
    /\ UNCHANGED alive

\* NamedPipe::~NamedPipe (Windows)
WinDestructor(o) ==
    /\ alive[o]
    /\ fs' = ClosedNamespace(o)
    /\ m_pipePath' = DestroyedPaths(o)
    /\ m_handle' = [m_handle EXCEPT ![o] = INVALID_HANDLE_VALUE]
    /\ m_break' = [m_break EXCEPT ![o] = FALSE]
    /\ destroyed' = [destroyed EXCEPT ![o] = FALSE]
    /\ alive' = [alive EXCEPT ![o] = FALSE]
    /\ lastOp' = [Op("~NamedPipe", o, m_pipePath[o], "ok") EXCEPT !.again = destroyed[o]]

\* ------------------------------------------------------------ messages ----
Byte == 0 .. 255

\* n bytes 0, 1, ..., 255, 0, 1, ...
Ramp(n) == [i \in 1 .. n |-> (i - 1) % 256]

\* the empty message, the messages of tests/IO.cpp and tests/Meta.cpp, and
\* messages that fill the drain buffer of read_blocking exactly and overfill it
Messages ==
    {<< >>, <<42>>, <<0, 1, 2, 255, 254>>,
     Ramp(PIPE_BUFFER_SIZE), Ramp(PIPE_BUFFER_SIZE + MaxOver)}

\* no budget, a budget of exactly one interval, a budget of several
Timeouts == {0, PIPE_WAIT_INTERVAL, MaxTimeout}

Min(a, b) == IF a < b THEN a ELSE b

\* ------------------------------------------------- kernel side of a FIFO ----

\* open(path, O_WRONLY | O_NONBLOCK) succeeds iff the entry exists (else
\* ENOENT) and the read end is open (else ENXIO); it never creates an entry
CanOpenForWrite_noReaderNeeded(pipePath) == pipePath \in fs

CanOpenForWrite(pipePath) == pipePath \in fs /\ readEnds[pipePath] > 0

\* open(path, O_RDONLY | O_NONBLOCK) succeeds iff the entry exists
CanOpenForRead(pipePath) == pipePath \in fs

\* poll(POLLIN): revents has POLLIN iff the buffer holds bytes
Readable(pipePath) == fifo[pipePath] # << >>

\* close of one end: the kernel frees the buffer with the last descriptor
BufferAfterClose(pipePath, r, w) ==
    IF r = 0 /\ w = 0 THEN [fifo EXCEPT ![pipePath] = << >>] ELSE fifo

\* -------------------------------------------------------- read_blocking ----
\* The reading thread works on object Pipe.
Pipe == 1

\* the polls of one call continue while timeout > PIPE_WAIT_INTERVAL
ReadBudgetLeft_offByOne(timeout) == timeout >= PIPE_WAIT_INTERVAL

ReadBudgetLeft_nonNegative(timeout) == timeout >= 0

ReadBudgetLeft(timeout) == timeout > PIPE_WAIT_INTERVAL

\* the bytes one ::read(handle, buffer.data(), PIPE_BUFFER_SIZE) takes
ReadChunk_dropsLast(buffer) == SubSeq(buffer, 1, Min(Len(buffer), PIPE_BUFFER_SIZE) - 1)

ReadChunk(buffer) == SubSeq(buffer, 1, Min(Len(buffer), PIPE_BUFFER_SIZE))

\* message.insert(message.end(), buffer.begin(), buffer.begin() + readBytes)
Accumulate_overwrites(message, chunk) == chunk

Accumulate_prepends(message, chunk) == chunk \o message

Accumulate(message, chunk) == message \o chunk

\* pc, timeout, message, handle: the position and the locals of the call in
\* progress; outcome, result: how the last call ended and what it returned;
\* calls, budget, polls, pollsAfterBreak: history of the call in progress
\* (calls made, timeout passed in, polls made, polls begun with m_break set)
RdIdle ==
    [pc |-> "idle", timeout |-> 0, message |-> << >>, handle |-> EmptyPath,
     outcome |-> "none", result |-> << >>, calls |-> 0, polls |-> 0,
     pollsAfterBreak |-> 0, budget |-> 0]

\* read_blocking(timeout) up to and including the open of the read end
read_open(t) ==
    /\ rd.pc = "idle"
    /\ rd.calls + wr.calls < MaxCalls
    /\ alive[Pipe]
    /\ IF CanOpenForRead(m_pipePath[Pipe])
         THEN /\ readEnds' = [readEnds EXCEPT ![m_pipePath[Pipe]] = @ + 1]
              /\ rd' = [rd EXCEPT !.pc = "poll", !.timeout = t, !.budget = t,
                                  !.message = << >>, !.handle = m_pipePath[Pipe],
                                  !.outcome = "running", !.result = << >>,
                                  !.calls = @ + 1, !.polls = 0, !.pollsAfterBreak = 0]
              /\ wr' = IF wr.pc # "idle" /\ wr.pipePath = m_pipePath[Pipe]
                         THEN [wr EXCEPT !.heard = TRUE] ELSE wr
         ELSE /\ rd' = [rd EXCEPT !.outcome = "Open", !.result = << >>,
                                  !.calls = @ + 1]
              /\ UNCHANGED <<readEnds, wr>>
    /\ UNCHANGED <<fs, m_pipePath, m_break, lifeVars, fifo, writeEnds>>

\* ::poll(&pollData, 1, PIPE_WAIT_INTERVAL) and the test of revents & POLLIN
read_poll ==
    /\ rd.pc = "poll"
    /\ rd' = [rd EXCEPT !.pc = IF Readable(rd.handle) THEN "read" ELSE "check",
                        !.polls = @ + 1,
                        !.pollsAfterBreak = IF m_break[Pipe] THEN @ + 1 ELSE @]
    /\ UNCHANGED <<fs, m_pipePath, m_break, lifeVars, fifo, readEnds, writeEnds, wr>>

\* the body of the wait loop: the load of m_break, then the budget
WaitLoopBody_timeoutFirst(break, timeout) ==
    IF ~ReadBudgetLeft(timeout) THEN "Timeout"
    ELSE IF break THEN "Interrupt" ELSE "continue"

WaitLoopBody_neverInterrupts(break, timeout) ==
    IF ReadBudgetLeft(timeout) THEN "continue" ELSE "Timeout"

WaitLoopBody(break, timeout) ==
    IF break THEN "Interrupt"
    ELSE IF ReadBudgetLeft(timeout) THEN "continue" ELSE "Timeout"

read_check ==
    /\ rd.pc = "check"
    /\ LET next == WaitLoopBody(m_break[Pipe], rd.timeout) IN
         rd' = IF next = "continue"
                 THEN [rd EXCEPT !.pc = "poll", !.timeout = @ - PIPE_WAIT_INTERVAL]
                 ELSE [rd EXCEPT !.pc = "unwind", !.outcome = next]
    /\ UNCHANGED <<fs, m_pipePath, m_break, lifeVars, fifo, readEnds, writeEnds, wr>>

\* what read_blocking does with the result of a ::read of the drain loop:
\* "read" (go on reading), "ok" (return the message) or "Read" (throw)
AfterRead_eagainIsError(readBytes, errno) ==
    IF readBytes > 0 THEN "read" ELSE IF readBytes = -1 THEN "Read" ELSE "ok"

AfterRead(readBytes, errno) ==
    IF readBytes > 0 THEN "read"
    ELSE IF readBytes = -1 /\ errno # "EAGAIN" THEN "Read" ELSE "ok"

\* one ::read of the drain loop: bytes are appended; without bytes the result
\* is 0 (no write end open) or -1 with EAGAIN, and both end the message
read_drain ==
    /\ rd.pc = "read"
    /\ IF fifo[rd.handle] # << >>
         THEN LET chunk == ReadChunk(fifo[rd.handle]) IN
              /\ rd' = [rd EXCEPT !.message = Accumulate(@, chunk),
                                  !.pc = AfterRead(Len(chunk), "none")]
              /\ fifo' = [fifo EXCEPT ![rd.handle] =
                            SubSeq(@, Len(chunk) + 1, Len(@))]
         ELSE /\ rd' = [rd EXCEPT !.pc = "unwind",
                                  !.outcome = AfterRead(IF writeEnds[rd.handle] = 0
                                                          THEN 0 ELSE -1, "EAGAIN")]
              /\ UNCHANGED fifo
    /\ UNCHANGED <<fs, m_pipePath, m_break, lifeVars, readEnds, writeEnds, wr>>

\* ~FileHandleWrapper of handle on the way out (return or exception), then
\* the call has ended
read_close ==
    /\ rd.pc = "unwind"
    /\ readEnds' = [readEnds EXCEPT ![rd.handle] = @ - 1]
    /\ fifo' = BufferAfterClose(rd.handle, readEnds'[rd.handle], writeEnds[rd.handle])
    /\ rd' = [rd EXCEPT !.pc = "idle", !.handle = EmptyPath,
                        !.result = IF rd.outcome = "ok" THEN rd.message ELSE << >>,
                        !.timeout = 0, !.message = << >>, !.budget = 0,
                        !.polls = 0, !.pollsAfterBreak = 0]
    /\ UNCHANGED <<fs, m_pipePath, m_break, lifeVars, writeEnds, wr>>

\* ---------------------------------------------------------------- write ----

\* the open attempts of one call continue while timeout > PIPE_WRITE_WAIT_INTERVAL
WriteBudgetLeft_givesUp(timeout) == FALSE

WriteBudgetLeft_offByOne(timeout) == timeout >= PIPE_WRITE_WAIT_INTERVAL

WriteBudgetLeft(timeout) == timeout > PIPE_WRITE_WAIT_INTERVAL

\* pc, pipePath, message, timeout, handle: the position, the arguments and the
\* locals of the call in progress (message stays with the caller afterwards);
\* outcome: how the last call ended; calls, budget, attempts, heard,
\* listenerAtStart, deliveredTo, fsAtStart: history (calls made; of the call in
\* progress the timeout passed in, the opens tried, whether a read end was open
\* at some time during the call; of the last call whether a read end was open
\* when it began, the read_blocking call that had the read end open when
\* ::write put the bytes and the polls that call had made by then, and the
\* file system when the write began)
WrIdle ==
    [pc |-> "idle", pipePath |-> EmptyPath, message |-> << >>, timeout |-> 0,
     handle |-> EmptyPath, outcome |-> "none", calls |-> 0, attempts |-> 0,
     budget |-> 0, heard |-> FALSE, listenerAtStart |-> FALSE, deliveredTo |-> 0,
     deliveredAtPoll |-> 0, fsAtStart |-> {}]

\* NamedPipe::write(pipePath, message, messageSize, timeout) is called
write_call(pipePath, message, t) ==
    /\ wr.pc = "idle"
    /\ rd.calls + wr.calls < MaxCalls
    /\ wr' = [wr EXCEPT !.pc = "open", !.pipePath = pipePath, !.message = message,
                        !.timeout = t, !.budget = t, !.handle = EmptyPath,
                        !.outcome = "running", !.calls = @ + 1, !.attempts = 0,
                        !.heard = readEnds[pipePath] > 0,
                        !.listenerAtStart = readEnds[pipePath] > 0,
                        !.deliveredTo = 0, !.deliveredAtPoll = 0, !.fsAtStart = fs]
    /\ UNCHANGED <<fs, m_pipePath, m_break, lifeVars, fifo, readEnds, writeEnds, rd>>

\* one round of the open loop: ::open(pipePath, O_WRONLY | O_NONBLOCK)
write_open ==
    /\ wr.pc = "open"
    /\ IF CanOpenForWrite(wr.pipePath)
         THEN /\ writeEnds' = [writeEnds EXCEPT ![wr.pipePath] = @ + 1]
              /\ wr' = [wr EXCEPT !.pc = "write", !.handle = wr.pipePath,
                                  !.attempts = @ + 1]
         ELSE /\ wr' = IF WriteBudgetLeft(wr.timeout)
                         THEN [wr EXCEPT !.timeout = @ - PIPE_WRITE_WAIT_INTERVAL,
                                         !.attempts = @ + 1]
                         ELSE [wr EXCEPT !.pc = "unwind", !.outcome = "Timeout",
                                         !.attempts = @ + 1]
              /\ UNCHANGED writeEnds
    /\ UNCHANGED <<fs, m_pipePath, m_break, lifeVars, fifo, readEnds, rd>>

\* ::write(handle, message, messageSize): -1 (EPIPE) when no read end is open,
\* else the bytes are appended to the buffer
write_write ==
    /\ wr.pc = "write"
    /\ IF readEnds[wr.handle] = 0
         THEN /\ wr' = [wr EXCEPT !.pc = "unwind", !.outcome = "Write"]
              /\ UNCHANGED fifo
         ELSE /\ fifo' = [fifo EXCEPT ![wr.handle] = @ \o wr.message]
              /\ wr' = [wr EXCEPT !.pc = "unwind", !.outcome = "ok",
                                  !.deliveredTo = rd.calls,
                                  !.deliveredAtPoll = rd.polls]
    /\ UNCHANGED <<fs, m_pipePath, m_break, lifeVars, readEnds, writeEnds, rd>>

\* ~FileHandleWrapper of handle on the way out (it closes nothing when the
\* handle is the invalid one), then the call has ended
write_close ==
    /\ wr.pc = "unwind"
    /\ IF wr.handle # EmptyPath
         THEN /\ writeEnds' = [writeEnds EXCEPT ![wr.handle] = @ - 1]
              /\ fifo' = BufferAfterClose(wr.handle, readEnds[wr.handle],
                                          writeEnds'[wr.handle])
         ELSE UNCHANGED <<writeEnds, fifo>>
    /\ wr' = [wr EXCEPT !.pc = "idle", !.handle = EmptyPath, !.timeout = 0,
                        !.budget = 0, !.attempts = 0, !.heard = FALSE]
    /\ UNCHANGED <<fs, m_pipePath, m_break, lifeVars, readEnds, rd>>

\* ------------------------------------------------------------ interrupt ----

\* a variant of interrupt whose store inverts the flag instead of setting it
interrupt_toggles ==
    /\ alive[Pipe]
    /\ m_break' = [m_break EXCEPT ![Pipe] = ~@]
    /\ UNCHANGED <<fs, m_pipePath, lifeVars, ioVars>>

\* NamedPipe::interrupt on object Pipe, from a third thread
interrupt ==
    /\ alive[Pipe]
    /\ m_break' = [m_break EXCEPT ![Pipe] = TRUE]
    /\ UNCHANGED <<fs, m_pipePath, lifeVars, ioVars>>

\* ------------------------------------------------------- specifications ----

\* ------------------------------------------------ I/O, Windows backend ----

\* waitOnAsyncIO: constexpr std::chrono::milliseconds pendingWaitInterval(10)
pendingWaitInterval == 10

\* no budget, one pending-wait interval, and a little more
WinTimeouts == {0, pendingWaitInterval, pendingWaitInterval + MaxTimeout}

\* The pipe instance. state: "none" (no instance: not created, or the server
\* handle was closed), "listening" (a client may connect), "connected",
\* "closing" (the client has closed its end, the server has not disconnected),
\* "disconnected" (after DisconnectNamedPipe); buf: the bytes written and not
\* yet read; pending: an overlapped ConnectNamedPipe is outstanding
InstNone == [state |-> "none", buf |-> << >>, pending |-> FALSE]

InstCreated == [state |-> "listening", buf |-> << >>, pending |-> FALSE]

\* pc, timeout, message, reconnect: the position and the locals of the call
\* in progress (reconnect: the call is in the broken-pipe branch of the read
\* loop); outcome, result: how the last call ended and what it returned;
\* calls: the calls made
WnIdle ==
    [pc |-> "idle", timeout |-> 0, message |-> << >>, reconnect |-> FALSE,
     outcome |-> "none", result |-> << >>, calls |-> 0]

\* pc, pipePath, message, timeout, waitUntilWritten, pendingWrite: the
\* position, the arguments and the locals of the call in progress; outcome:
\* how the last call ended; calls: the calls made
WwIdle ==
    [pc |-> "idle", pipePath |-> EmptyPath, message |-> << >>, timeout |-> 0,
     waitUntilWritten |-> FALSE, pendingWrite |-> FALSE,
     outcome |-> "none", calls |-> 0]

\* the call of read_blocking ends by an exception
WnRaised(what) ==
    [wn EXCEPT !.pc = "idle", !.outcome = what, !.result = << >>,
               !.timeout = 0, !.message = << >>, !.reconnect = FALSE]

\* the call of write ends (its handle guard closes the client end)
WwEnded(what) ==
    [ww EXCEPT !.pc = "idle", !.outcome = what, !.timeout = 0,
               !.pendingWrite = FALSE]

\* the client end is closed: a connected instance is left closing
ClientClosed(i) == IF i.state = "connected" THEN [i EXCEPT !.state = "closing"] ELSE i

\* the handle read_blocking passes to the system calls refers to an instance
ServerHandleValid == m_handle[Pipe] # INVALID_HANDLE_VALUE /\ inst.state # "none"

\* read_blocking(timeout) is entered: the event is created
win_read_enter(t) ==
    /\ wn.pc = "idle"
    /\ alive[Pipe]
    /\ wn' = [wn EXCEPT !.pc = "connect", !.timeout = t, !.message = << >>,
                        !.reconnect = FALSE, !.outcome = "running",
                        !.result = << >>, !.calls = @ + 1]
    /\ UNCHANGED <<ww, inst>>

\* read_blocking(timeout) is called
win_read_call(t) ==
    /\ wn.calls + ww.calls < MaxCalls
    /\ win_read_enter(t)

\* where read_blocking goes on after disconnectAndReconnect has returned:
\* to the read loop, or (broken-pipe branch) to the budget test of the loop
AfterConnect == IF wn.reconnect THEN "budget" ELSE "read"

\* disconnectAndReconnect(m_handle, &overlapped, disconnectFirst, timeout) up
\* to the result of ConnectNamedPipe
win_connect ==
    /\ wn.pc = "connect"
    /\ IF ~ServerHandleValid
         THEN /\ wn' = WnRaised(IF wn.reconnect THEN "Disconnect" ELSE "Connect")
              /\ UNCHANGED inst
         ELSE LET i == IF wn.reconnect
                         THEN [inst EXCEPT !.state = "disconnected", !.buf = << >>]
                         ELSE inst IN
              IF i.state \in {"disconnected", "listening"}
                THEN \* ERROR_IO_PENDING: waitOnAsyncIO
                     /\ inst' = [i EXCEPT !.state = "listening", !.pending = TRUE]
                     /\ wn' = [wn EXCEPT !.pc = "connect_wait"]
                ELSE \* ERROR_PIPE_CONNECTED, ERROR_NO_DATA: a client is there
                     /\ inst' = i
                     /\ wn' = [wn EXCEPT !.pc = AfterConnect, !.reconnect = FALSE]
    /\ UNCHANGED ww

\* waitOnAsyncIO: the test of the budget after ERROR_IO_INCOMPLETE
PendingBudgetLeft(timeout) == timeout > pendingWaitInterval

\* one round of waitOnAsyncIO for the pending connect: GetOverlappedResult
\* (..., FALSE) reports completion, ERROR_IO_INCOMPLETE, or, once the server
\* handle is closed under the call, either ERROR_IO_INCOMPLETE (nothing
\* completes the request) or another error
win_connect_wait ==
    /\ wn.pc = "connect_wait"
    /\ \/ /\ inst.state \in {"connected", "closing"}
          /\ wn' = [wn EXCEPT !.pc = AfterConnect, !.reconnect = FALSE]
          /\ inst' = [inst EXCEPT !.pending = FALSE]
       \/ /\ inst.state \notin {"connected", "closing"}
          /\ wn' = IF PendingBudgetLeft(wn.timeout)
                     THEN [wn EXCEPT !.timeout = @ - pendingWaitInterval]
                     ELSE WnRaised("Timeout")
          /\ UNCHANGED inst
       \/ /\ inst.state = "none"
          /\ wn' = WnRaised("Waiting for pending IO")
          /\ UNCHANGED inst
    /\ UNCHANGED ww

\* the result of ReadFile(m_handle, buffer.data(), PIPE_BUFFER_SIZE,
\* &readBytes, &overlapped): "success" when bytes are there, else the error
ReadFile ==
    IF ~ServerHandleValid THEN "ERROR_INVALID_HANDLE"
    ELSE IF inst.state \in {"connected", "closing"} /\ inst.buf # << >> THEN "success"
    ELSE IF inst.state = "connected" THEN "ERROR_IO_PENDING"
    ELSE IF inst.state = "closing" THEN "ERROR_BROKEN_PIPE"
    ELSE IF inst.state = "listening" THEN "ERROR_PIPE_LISTENING"
    ELSE "ERROR_PIPE_NOT_CONNECTED"

\* what the read loop does after a read that failed with error: with bytes
\* accumulated the message is taken as complete; else the switch
AfterReadFile_raisesFirst(error, message) ==
    IF error = "ERROR_BROKEN_PIPE" THEN IF message # << >> THEN "disconnect" ELSE "connect"
    ELSE IF error = "ERROR_PIPE_LISTENING" THEN "budget"
    ELSE "Read"

AfterReadFile(error, message) ==
    IF message # << >> THEN "disconnect"
    ELSE IF error = "ERROR_BROKEN_PIPE" THEN "connect"
    ELSE IF error = "ERROR_PIPE_LISTENING" THEN "budget"
    ELSE "Read"

\* the thread after the read loop has dealt with a failed read
WnAfterReadFile(error) ==
    LET next == AfterReadFile(error, wn.message) IN
    IF next = "Read" THEN WnRaised("Read")
    ELSE [wn EXCEPT !.pc = next, !.reconnect = (next = "connect")]

\* the thread after a successful read: the bytes are appended, a short read
\* ends the message
WnAfterChunk(chunk) ==
    [wn EXCEPT !.message = Accumulate(@, chunk),
               !.pc = IF Len(chunk) < PIPE_BUFFER_SIZE THEN "disconnect" ELSE "read"]

\* ReadFile and what the loop does with its result
win_read ==
    /\ wn.pc = "read"
    /\ IF ReadFile = "success"
         THEN LET chunk == ReadChunk(inst.buf) IN
              /\ inst' = [inst EXCEPT !.buf = SubSeq(@, Len(chunk) + 1, Len(@))]
              /\ wn' = WnAfterChunk(chunk)
         ELSE /\ UNCHANGED inst
              /\ wn' = IF ReadFile = "ERROR_IO_PENDING"
                         THEN \* GetOverlappedResult(..., TRUE)
                              [wn EXCEPT !.pc = "read_wait"]
                         ELSE WnAfterReadFile(ReadFile)
    /\ UNCHANGED ww

\* GetOverlappedResult(m_handle, &overlapped, &readBytes, TRUE): the thread
\* is blocked until bytes arrive, the client closes its end, or the request
\* fails; nothing else ends the wait
win_read_wait ==
    /\ wn.pc = "read_wait"
    /\ \/ /\ inst.state \in {"connected", "closing"} /\ inst.buf # << >>
          /\ LET chunk == ReadChunk(inst.buf) IN
               /\ inst' = [inst EXCEPT !.buf = SubSeq(@, Len(chunk) + 1, Len(@))]
               /\ wn' = WnAfterChunk(chunk)
       \/ /\ inst.state = "closing" /\ inst.buf = << >>
          /\ wn' = WnAfterReadFile("ERROR_BROKEN_PIPE")
          /\ UNCHANGED inst
       \/ /\ inst.state \in {"none", "disconnected"}
          /\ wn' = WnRaised("Overlapped waiting")
          /\ UNCHANGED inst
    /\ UNCHANGED ww

\* the budget test at the end of an unsuccessful round of the read loop
win_budget ==
    /\ wn.pc = "budget"
    /\ wn' = IF ReadBudgetLeft(wn.timeout)
               THEN [wn EXCEPT !.pc = "read", !.timeout = @ - PIPE_WAIT_INTERVAL]
               ELSE WnRaised("Timeout")
    /\ UNCHANGED <<ww, inst>>

\* DisconnectNamedPipe(m_handle) and the return of the message
win_disconnect ==
    /\ wn.pc = "disconnect"
    /\ inst' = IF ServerHandleValid
                 THEN [inst EXCEPT !.state = "disconnected", !.buf = << >>]
                 ELSE inst
    /\ wn' = [wn EXCEPT !.pc = "idle", !.outcome = "ok", !.result = wn.message,
                        !.timeout = 0, !.message = << >>, !.reconnect = FALSE]
    /\ UNCHANGED ww

\* NamedPipe::write(pipePath, message, messageSize, timeout, waitUntilWritten)
\* is entered
win_write_enter(pipePath, message, t, wait) ==
    /\ ww.pc = "idle"
    /\ ww' = [ww EXCEPT !.pc = "wait", !.pipePath = Normalized(pipePath),
                        !.message = message, !.timeout = t,
                        !.waitUntilWritten = wait, !.pendingWrite = FALSE,
                        !.outcome = "running", !.calls = @ + 1]
    /\ UNCHANGED <<wn, inst>>

\* NamedPipe::write(pipePath, message, messageSize, timeout, waitUntilWritten)
\* is called
win_write_call(pipePath, message, t, wait) ==
    /\ wn.calls + ww.calls < MaxCalls
    /\ win_write_enter(pipePath, message, t, wait)

\* WaitNamedPipe(pipePath, 1): an instance of that name is listening
WaitNamedPipe(pipePath) == pipePath \in fs /\ inst.state = "listening"

\* one round of the wait loop of write
win_write_wait ==
    /\ ww.pc = "wait"
    /\ ww' = IF WaitNamedPipe(ww.pipePath)
               THEN [ww EXCEPT !.pc = "open"]
               ELSE IF WriteBudgetLeft(ww.timeout)
               THEN [ww EXCEPT !.timeout = @ - PIPE_WRITE_WAIT_INTERVAL]
               ELSE WwEnded("Timeout")
    /\ UNCHANGED <<wn, inst>>

\* CreateFile(pipePath, GENERIC_WRITE, ..., OPEN_EXISTING, ...)
win_write_open ==
    /\ ww.pc = "open"
    /\ IF WaitNamedPipe(ww.pipePath)
         THEN /\ inst' = [inst EXCEPT !.state = "connected"]
              /\ ww' = [ww EXCEPT !.pc = "write"]
         ELSE /\ ww' = WwEnded("Open for write")
              /\ UNCHANGED inst
    /\ UNCHANGED wn

\* WriteFile(handle, message, messageSize, NULL, &overlapped): the bytes go
\* to the instance; the request stays pending (ERROR_IO_PENDING) while they
\* exceed the buffer of PIPE_BUFFER_SIZE bytes create() asked for
win_write_file ==
    /\ ww.pc = "write"
    /\ IF inst.state = "connected"
         THEN /\ inst' = [inst EXCEPT !.buf = @ \o ww.message]
              /\ ww' = IF Len(inst'.buf) > PIPE_BUFFER_SIZE /\ ww.waitUntilWritten
                         THEN [ww EXCEPT !.pc = "written_wait", !.pendingWrite = TRUE]
                         ELSE [ww EXCEPT !.pc = "close", !.outcome = "ok"]
         ELSE /\ ww' = [ww EXCEPT !.pc = "close", !.outcome = "Write"]
              /\ UNCHANGED inst
    /\ UNCHANGED wn

\* one round of waitOnAsyncIO for the pending write
win_written_wait ==
    /\ ww.pc = "written_wait"
    /\ ww' = IF inst.state = "connected" /\ Len(inst.buf) <= PIPE_BUFFER_SIZE
               THEN [ww EXCEPT !.pc = "close", !.outcome = "ok"]
               ELSE IF inst.state # "connected"
               THEN [ww EXCEPT !.pc = "close", !.outcome = "Waiting for pending IO"]
               ELSE IF PendingBudgetLeft(ww.timeout)
               THEN [ww EXCEPT !.timeout = @ - pendingWaitInterval]
               ELSE [ww EXCEPT !.pc = "close", !.outcome = "Timeout"]
    /\ UNCHANGED <<wn, inst>>

\* ~FileHandleWrapper: CloseHandle of the client end, then the call has ended
win_write_close ==
    /\ ww.pc = "close"
    /\ inst' = ClientClosed(inst)
    /\ ww' = WwEnded(ww.outcome)
    /\ UNCHANGED wn

\* destroy() (Windows): the test of m_pipePath.empty() and CloseHandle(m_handle)
win_destroy_close ==
    /\ ds.pc = "remove"
    /\ fs' = ClosedNamespace(Pipe)
    /\ inst' = IF m_pipePath[Pipe] # EmptyPath THEN InstNone ELSE inst
    /\ ds' = [ds EXCEPT !.pc = IF m_pipePath[Pipe] # EmptyPath THEN "clear" ELSE "done"]
    /\ UNCHANGED <<m_pipePath, m_break, lifeVars, ioVars, m_handle, wn, ww, hist, guards>>

\* destroy() (Windows): m_pipePath.clear(), m_handle = INVALID_HANDLE_VALUE
win_destroy_clear ==
    /\ ds.pc = "clear"
    /\ m_pipePath' = DestroyedPaths(Pipe)
    /\ m_handle' = [m_handle EXCEPT ![Pipe] = INVALID_HANDLE_VALUE]
    /\ destroyed' = [destroyed EXCEPT ![Pipe] = TRUE]
    /\ ds' = [ds EXCEPT !.pc = "done"]
    /\ UNCHANGED <<fs, m_break, alive, lastOp, ioVars, winIoVars, hist, guards>>

\* pc: the position of the thread in destroy(): "idle" before the call,
\* "remove" after the store to m_break, "clear" after the removal of the
\* entry, "done" after the return
DsIdle == [pc |-> "idle"]

\* interrupts: the calls of interrupt() made; interrupted: the calls of
\* read_blocking that raised Interrupt; written: the messages of the writes
\* whose ::write succeeded, in their order; readable: a poll of the call of
\* read_blocking in progress or last ended reported the pipe readable;
\* accepted: the result of the last ::write of write; readResult: the result
\* of the last ::read or ReadFile of read_blocking (n: the bytes, or -1;
\* error: errno or GetLastError() after a failure); received: the messages
\* the calls of read_blocking returned, in their order
HistEmpty ==
    [interrupts |-> 0, interrupted |-> 0, written |-> << >>,
     readable |-> FALSE, accepted |-> 0,
     readResult |-> [n |-> 0, error |-> "none"], received |-> << >>]

\* of the call of read_blocking (rd) and of write (wr) in progress or last
\* ended: opened: the descriptors ::open returned; released: the calls of
\* the release function on a descriptor; releasedInvalid: the calls of the
\* release function on the invalid handle
GuardsIdle ==
    [t \in {"rd", "wr"} |-> [opened |-> 0, released |-> 0, releasedInvalid |-> 0]]

IoIdle ==
    /\ fifo = [p \in Paths |-> << >>]
    /\ readEnds = [p \in Paths |-> 0]
    /\ writeEnds = [p \in Paths |-> 0]
    /\ rd = RdIdle
    /\ wr = WrIdle
    /\ m_handle = [o \in Objects |-> INVALID_HANDLE_VALUE]
    /\ wn = WnIdle
    /\ ww = WwIdle
    /\ inst = InstNone
    /\ ds = DsIdle
    /\ hist = HistEmpty
    /\ guards = GuardsIdle

InitLife ==
    /\ fs = {}
    /\ alive = [o \in Objects |-> FALSE]
    /\ m_pipePath = [o \in Objects |-> EmptyPath]
    /\ m_break = [o \in Objects |-> FALSE]
    /\ destroyed = [o \in Objects |-> FALSE]
    /\ lastOp = Op("none", 0, EmptyPath, "ok")
    /\ IoIdle

NextLife ==
    \/ \E o \in Objects, p \in Paths :
          create(o, p) /\ UNCHANGED <<ioVars, winVars, sharedVars>>
    \/ \E o \in Objects :
          DefaultConstruct(o) /\ UNCHANGED <<ioVars, winVars, sharedVars>>
    \/ \E d \in Objects, s \in Objects :
          MoveConstruct(d, s) /\ UNCHANGED <<ioVars, winVars, sharedVars>>
    \/ \E d \in Objects, s \in Objects :
          MoveAssign(d, s) /\ UNCHANGED <<ioVars, winVars, sharedVars>>
    \/ \E o \in Objects :
          destroy(o) /\ UNCHANGED <<ioVars, winVars, sharedVars>>
    \/ \E o \in Objects :
          Destructor(o) /\ UNCHANGED <<ioVars, winVars, sharedVars>>
    \/ \E o \in Objects :
          interruptOf(o) /\ UNCHANGED <<ioVars, winVars, sharedVars>>

SpecLife == InitLife /\ [][NextLife]_vars

\* the lifecycle on the Windows backend
NextLifeWin ==
    \/ \E o \in Objects, p \in WinPaths :
          WinCreate(o, p) /\ UNCHANGED <<ioVars, winIoVars, sharedVars>>
    \/ \E o \in Objects :
          DefaultConstruct(o) /\ UNCHANGED <<ioVars, winVars, sharedVars>>
    \/ \E d \in Objects, s \in Objects :
          WinMoveConstruct(d, s) /\ UNCHANGED <<ioVars, winIoVars, sharedVars>>
    \/ \E d \in Objects, s \in Objects :
          WinMoveAssign(d, s) /\ UNCHANGED <<ioVars, winIoVars, sharedVars>>
    \/ \E o \in Objects :
          WinDestroy(o) /\ UNCHANGED <<ioVars, winIoVars, sharedVars>>
    \/ \E o \in Objects :
          WinDestructor(o) /\ UNCHANGED <<ioVars, winIoVars, sharedVars>>
    \/ \E o \in Objects :
          interruptOf(o) /\ UNCHANGED <<ioVars, winVars, sharedVars>>

SpecLifeWin == InitLife /\ [][NextLifeWin]_vars

\* The I/O specification starts after NamedPipe::create("ioTestPipe") has
\* returned object Pipe (tests/IO.cpp, IOTest::IOTest)
Init ==
    /\ fs = {"ioTestPipe"}
    /\ alive = [o \in Objects |-> o = Pipe]
    /\ m_pipePath = [o \in Objects |-> IF o = Pipe THEN "ioTestPipe" ELSE EmptyPath]
    /\ m_break = [o \in Objects |-> FALSE]
    /\ destroyed = [o \in Objects |-> FALSE]
    /\ lastOp = Op("create", Pipe, "ioTestPipe", "ok")
    /\ IoIdle

Next ==
    \/ \E t \in Timeouts : read_open(t) /\ UNCHANGED <<winVars, sharedVars>>
    \/ read_poll /\ UNCHANGED <<winVars, sharedVars>>
    \/ read_check /\ UNCHANGED <<winVars, sharedVars>>
    \/ read_drain /\ UNCHANGED <<winVars, sharedVars>>
    \/ read_close /\ UNCHANGED <<winVars, sharedVars>>
    \/ \E p \in Paths, m \in Messages, t \in Timeouts :
          write_call(p, m, t) /\ UNCHANGED <<winVars, sharedVars>>
    \/ write_open /\ UNCHANGED <<winVars, sharedVars>>
    \/ write_write /\ UNCHANGED <<winVars, sharedVars>>
    \/ write_close /\ UNCHANGED <<winVars, sharedVars>>
    \/ interrupt /\ UNCHANGED <<winVars, sharedVars>>

Spec == Init /\ [][Next]_vars

\* ---- the same threads, with the history of their calls kept in hist

interrupt_counted ==
    /\ hist.interrupts < MaxInterrupts
    /\ interrupt
    /\ hist' = [hist EXCEPT !.interrupts = @ + 1]

\* the wait loop body, with the throw of InterruptException counted
read_check_counted ==
    /\ read_check
    /\ hist' = IF rd'.outcome = "Interrupt"
                THEN [hist EXCEPT !.interrupted = @ + 1] ELSE hist

\* ::write, with the message recorded when it succeeds
write_write_recorded ==
    /\ write_write
    /\ hist' = IF wr'.outcome = "ok"
                THEN [hist EXCEPT !.written = Append(@, wr.message)] ELSE hist

NextHist ==
    \/ \E t \in Timeouts : read_open(t) /\ UNCHANGED <<winVars, sharedVars>>
    \/ read_poll /\ UNCHANGED <<winVars, sharedVars>>
    \/ read_check_counted /\ UNCHANGED <<winVars, ds, guards>>
    \/ read_drain /\ UNCHANGED <<winVars, sharedVars>>
    \/ read_close /\ UNCHANGED <<winVars, sharedVars>>
    \/ \E p \in Paths, m \in Messages, t \in Timeouts :
          write_call(p, m, t) /\ UNCHANGED <<winVars, sharedVars>>
    \/ write_open /\ UNCHANGED <<winVars, sharedVars>>
    \/ write_write_recorded /\ UNCHANGED <<winVars, ds, guards>>
    \/ write_close /\ UNCHANGED <<winVars, sharedVars>>
    \/ interrupt_counted /\ UNCHANGED <<winVars, ds, guards>>

SpecHist == Init /\ [][NextHist]_vars

\* ---- the I/O threads and a thread that calls destroy() on object Pipe

\* destroy(): m_break.store(true)
destroy_break ==
    /\ ds.pc = "idle"
    /\ alive[Pipe]
    /\ m_break' = [m_break EXCEPT ![Pipe] = TRUE]
    /\ ds' = [ds EXCEPT !.pc = "remove"]
    /\ UNCHANGED <<fs, m_pipePath, lifeVars, ioVars, winVars, hist, guards>>

\* destroy(): the test of m_pipePath.empty() and std::filesystem::remove
destroy_remove ==
    /\ ds.pc = "remove"
    /\ fs' = RemovedFs(Pipe)
    /\ ds' = [ds EXCEPT !.pc = IF m_pipePath[Pipe] # EmptyPath THEN "clear" ELSE "done"]
    /\ UNCHANGED <<m_pipePath, m_break, lifeVars, ioVars, winVars, hist, guards>>

\* destroy(): m_pipePath.clear(), and the return
destroy_clear ==
    /\ ds.pc = "clear"
    /\ m_pipePath' = DestroyedPaths(Pipe)
    /\ destroyed' = [destroyed EXCEPT ![Pipe] = TRUE]
    /\ ds' = [ds EXCEPT !.pc = "done"]
    /\ UNCHANGED <<fs, m_break, alive, lastOp, ioVars, winVars, hist, guards>>

NextDestroy ==
    \/ Next
    \/ destroy_break
    \/ destroy_remove
    \/ destroy_clear

SpecDestroy == Init /\ [][NextDestroy]_vars

\* --------------------------- the I/O specification of the Windows backend ----

\* the state after NamedPipe::create("ioTestPipe") (Windows) has returned
\* object Pipe
InitWin ==
    /\ fs = {Normalized("ioTestPipe")}
    /\ alive = [o \in Objects |-> o = Pipe]
    /\ m_pipePath = [o \in Objects |->
                        IF o = Pipe THEN Normalized("ioTestPipe") ELSE EmptyPath]
    /\ m_handle = [o \in Objects |->
                      IF o = Pipe THEN Normalized("ioTestPipe") ELSE INVALID_HANDLE_VALUE]
    /\ m_break = [o \in Objects |-> FALSE]
    /\ destroyed = [o \in Objects |-> FALSE]
    /\ lastOp = Op("create", Pipe, Normalized("ioTestPipe"), "ok")
    /\ fifo = [p \in Paths |-> << >>]
    /\ readEnds = [p \in Paths |-> 0]
    /\ writeEnds = [p \in Paths |-> 0]
    /\ rd = RdIdle
    /\ wr = WrIdle
    /\ wn = WnIdle
    /\ ww = WwIdle
    /\ inst = InstCreated
    /\ ds = DsIdle
    /\ hist = HistEmpty
    /\ guards = GuardsIdle

\* what the steps of read_blocking and write (Windows) leave alone
winFrame == <<fs, m_pipePath, m_break, lifeVars, ioVars, m_handle, sharedVars>>

\* a reading thread, a writing thread, a thread that calls interrupt() and a
\* thread that calls destroy(), all on object Pipe
NextWin ==
    \/ \E t \in WinTimeouts : win_read_call(t) /\ UNCHANGED winFrame
    \/ win_connect /\ UNCHANGED winFrame
    \/ win_connect_wait /\ UNCHANGED winFrame
    \/ win_read /\ UNCHANGED winFrame
    \/ win_read_wait /\ UNCHANGED winFrame
    \/ win_budget /\ UNCHANGED winFrame
    \/ win_disconnect /\ UNCHANGED winFrame
    \/ \E p \in Paths, m \in Messages, t \in WinTimeouts, w \in BOOLEAN :
          win_write_call(p, m, t, w) /\ UNCHANGED winFrame
    \/ win_write_wait /\ UNCHANGED winFrame
    \/ win_write_open /\ UNCHANGED winFrame
    \/ win_write_file /\ UNCHANGED winFrame
    \/ win_written_wait /\ UNCHANGED winFrame
    \/ win_write_close /\ UNCHANGED winFrame
    \/ interrupt /\ UNCHANGED <<winVars, sharedVars>>
    \/ destroy_break
    \/ win_destroy_close
    \/ win_destroy_clear

SpecWin == InitWin /\ [][NextWin]_vars

\* ---- the I/O specification (POSIX) with fair scheduling of the threads

\* the thread in read_blocking takes its next step
rd_step ==
    /\ read_poll \/ read_check \/ read_drain \/ read_close
    /\ UNCHANGED <<winVars, sharedVars>>

\* the thread in write takes its next step
wr_step ==
    /\ write_open \/ write_write \/ write_close
    /\ UNCHANGED <<winVars, sharedVars>>

\* Every step inside a call is a system call that returns (poll with a
\* timeout, open, read and write with O_NONBLOCK, close) or a test of local
\* state, and the scheduler runs every thread: a thread inside a call
\* eventually takes its next step. Nothing obliges a caller to make a call.
SpecFair == Spec /\ WF_vars(rd_step) /\ WF_vars(wr_step)

\* ---- the I/O specification (POSIX) with the FileHandleWrapper objects

\* template parameter invalid_handle of handle_t: the result of a failed open
invalid_handle == EmptyPath

\* FileHandleWrapper::operator=(FileHandleWrapper &&other): what other holds
\* afterwards
MovedFrom_keepsHandle(handle) == handle

MovedFrom(handle) == invalid_handle

\* ~FileHandleWrapper: the test that decides whether m_closeFunc is called
Releases_always(handle) == TRUE

Releases(handle) == handle # invalid_handle

\* ::open has returned descriptor fd to the call whose record is g
Opened(g, fd) == IF fd # invalid_handle THEN [g EXCEPT !.opened = @ + 1] ELSE g

\* ~FileHandleWrapper of a wrapper that holds handle
Destroyed(g, handle) ==
    IF ~Releases(handle) THEN g
    ELSE IF handle # invalid_handle
    THEN [g EXCEPT !.released = @ + 1]
    ELSE [g EXCEPT !.releasedInvalid = @ + 1]

\* write is called: handle_t handle
write_call_guarded(pipePath, message, t) ==
    /\ write_call(pipePath, message, t)
    /\ guards' = [guards EXCEPT !["wr"] = GuardsIdle["wr"]]

\* handle = handle_t(::open(...), &::close): the temporary is constructed,
\* moved from and destroyed
write_open_guarded ==
    /\ write_open
    /\ guards' = [guards EXCEPT !["wr"] =
                     Destroyed(Opened(@, wr'.handle), MovedFrom(wr'.handle))]

\* write leaves its scope: ~FileHandleWrapper of handle
write_close_guarded ==
    /\ write_close
    /\ guards' = [guards EXCEPT !["wr"] = Destroyed(@, wr.handle)]

\* read_blocking is called: handle_t handle(::open(...), &::close); when the
\* open failed the exception leaves the scope of handle at once
read_open_guarded(t) ==
    /\ read_open(t)
    /\ guards' = [guards EXCEPT !["rd"] =
                     IF rd'.pc = "poll"
                       THEN Opened(GuardsIdle["rd"], rd'.handle)
                       ELSE Destroyed(GuardsIdle["rd"], invalid_handle)]

\* read_blocking leaves its scope: ~FileHandleWrapper of handle
read_close_guarded ==
    /\ read_close
    /\ guards' = [guards EXCEPT !["rd"] = Destroyed(@, rd.handle)]

NextGuards ==
    \/ \E t \in Timeouts : read_open_guarded(t) /\ UNCHANGED <<winVars, ds, hist>>
    \/ read_poll /\ UNCHANGED <<winVars, sharedVars>>
    \/ read_check /\ UNCHANGED <<winVars, sharedVars>>
    \/ read_drain /\ UNCHANGED <<winVars, sharedVars>>
    \/ read_close_guarded /\ UNCHANGED <<winVars, ds, hist>>
    \/ \E p \in Paths, m \in Messages, t \in Timeouts :
          write_call_guarded(p, m, t) /\ UNCHANGED <<winVars, ds, hist>>
    \/ write_open_guarded /\ UNCHANGED <<winVars, ds, hist>>
    \/ write_write /\ UNCHANGED <<winVars, sharedVars>>
    \/ write_close_guarded /\ UNCHANGED <<winVars, ds, hist>>
    \/ interrupt /\ UNCHANGED <<winVars, sharedVars>>
    \/ destroy_break
    \/ destroy_remove
    \/ destroy_clear

SpecGuards == Init /\ [][NextGuards]_vars

\* ---- the I/O specification (POSIX) in an environment whose system calls
\* ---- may fail and whose pipe is finite

\* the largest write the pipe takes atomically (POSIX: at least 512 bytes)
PIPE_BUF == 512

\* the bytes the pipe holds at most (system-dependent, at least PIPE_BUF)
PipeCapacity == 512

\* messages below and above the drain buffer and above PIPE_BUF
EnvMessages == {<<42>>, Ramp(PIPE_BUFFER_SIZE + MaxOver), Ramp(PIPE_BUF + MaxOver)}

\* errors of ::read other than EAGAIN
OtherErrnos == {"EINTR", "EIO"}

\* the result of ::write(handle, message, messageSize) with O_NONBLOCK on a
\* FIFO that has a read end open and free bytes of room: up to PIPE_BUF
\* bytes go in whole or not at all (-1, EAGAIN); a longer message goes in as
\* far as there is room, and not at all (-1, EAGAIN) when the pipe is full
WriteResult(messageSize, free) ==
    IF messageSize <= PIPE_BUF
      THEN IF messageSize <= free THEN messageSize ELSE -1
      ELSE IF free = 0 THEN -1 ELSE Min(messageSize, free)

\* write's test of the result of ::write
AfterWrite_wholeOnly(result, messageSize) == IF result # messageSize THEN "Write" ELSE "ok"

AfterWrite(result, messageSize) == IF result < 0 THEN "Write" ELSE "ok"

\* read_blocking is called
read_open_env(t) ==
    /\ read_open(t)
    /\ hist' = [hist EXCEPT !.readable = FALSE]

\* ::poll returns 0 or 1
read_poll_env ==
    /\ read_poll
    /\ hist' = [hist EXCEPT !.readable = @ \/ rd'.pc = "read"]

\* ::poll returns -1: the condition of the wait loop is false, the loop is
\* left without a look at revents
read_poll_fails ==
    /\ rd.pc = "poll"
    /\ rd' = [rd EXCEPT !.pc = "read", !.polls = @ + 1,
                        !.pollsAfterBreak = IF m_break[Pipe] THEN @ + 1 ELSE @]
    /\ UNCHANGED <<fs, m_pipePath, m_break, lifeVars, fifo, readEnds, writeEnds, wr>>

\* the result of ::read(handle, buffer.data(), PIPE_BUFFER_SIZE) with
\* O_NONBLOCK: the bytes taken, 0 when the pipe is empty and no write end is
\* open, else -1 with EAGAIN
ReadResult(pipePath) ==
    IF fifo[pipePath] # << >>
      THEN [n |-> Len(ReadChunk(fifo[pipePath])), error |-> "none"]
      ELSE IF writeEnds[pipePath] = 0
      THEN [n |-> 0, error |-> "none"]
      ELSE [n |-> -1, error |-> "EAGAIN"]

\* one ::read of the drain loop
read_drain_env ==
    /\ read_drain
    /\ hist' = [hist EXCEPT !.readResult = ReadResult(rd.handle)]

\* a ::read of the drain loop returns -1 with an error other than EAGAIN
read_drain_fails(errno) ==
    /\ rd.pc = "read"
    /\ rd' = [rd EXCEPT !.pc = "unwind", !.outcome = AfterRead(-1, errno)]
    /\ hist' = [hist EXCEPT !.readResult = [n |-> -1, error |-> errno]]
    /\ UNCHANGED <<fs, m_pipePath, m_break, lifeVars, fifo, readEnds, writeEnds, wr>>

\* ::write(handle, message, messageSize) on a finite pipe, and the test of
\* its result
write_write_env ==
    /\ wr.pc = "write"
    /\ LET result == IF readEnds[wr.handle] = 0
                       THEN -1
                       ELSE WriteResult(Len(wr.message),
                                        PipeCapacity - Len(fifo[wr.handle]))
           next == AfterWrite(result, Len(wr.message)) IN
         /\ fifo' = IF result > 0
                      THEN [fifo EXCEPT ![wr.handle] = @ \o SubSeq(wr.message, 1, result)]
                      ELSE fifo
         /\ wr' = IF next = "ok"
                    THEN [wr EXCEPT !.pc = "unwind", !.outcome = "ok",
                                    !.deliveredTo = rd.calls,
                                    !.deliveredAtPoll = rd.polls]
                    ELSE [wr EXCEPT !.pc = "unwind", !.outcome = next]
         /\ hist' = [hist EXCEPT !.accepted = result]
    /\ UNCHANGED <<fs, m_pipePath, m_break, lifeVars, readEnds, writeEnds, rd>>

NextEnv ==
    \/ \E t \in Timeouts : read_open_env(t) /\ UNCHANGED <<winVars, ds, guards>>
    \/ read_poll_env /\ UNCHANGED <<winVars, ds, guards>>
    \/ read_poll_fails /\ UNCHANGED <<winVars, sharedVars>>
    \/ read_check /\ UNCHANGED <<winVars, sharedVars>>
    \/ read_drain_env /\ UNCHANGED <<winVars, ds, guards>>
    \/ \E errno \in OtherErrnos : read_drain_fails(errno) /\ UNCHANGED <<winVars, ds, guards>>
    \/ read_close /\ UNCHANGED <<winVars, sharedVars>>
    \/ \E p \in Paths, m \in EnvMessages, t \in Timeouts :
          write_call(p, m, t) /\ UNCHANGED <<winVars, sharedVars>>
    \/ write_open /\ UNCHANGED <<winVars, sharedVars>>
    \/ write_write_env /\ UNCHANGED <<winVars, ds, guards>>
    \/ write_close /\ UNCHANGED <<winVars, sharedVars>>
    \/ interrupt /\ UNCHANGED <<winVars, sharedVars>>

SpecEnv == Init /\ [][NextEnv]_vars

\* ---- the program built for either backend

\* NamedPipe.cpp compiles one of its two halves (PIPE_PLATFORM_UNIX,
\* PIPE_PLATFORM_WINDOWS); which one ran create() shows in the path it gave
\* the pipe, and stays so
PIPE_PLATFORM_UNIX == lastOp.path \in Paths

PIPE_PLATFORM_WINDOWS == lastOp.path \notin Paths

InitBoth == Init \/ InitWin

\* errors ReadFile is taken to report whatever the state of the instance
ReportedErrors == {"ERROR_PIPE_LISTENING", "ERROR_OPERATION_ABORTED"}

\* ReadFile and what the loop does with its result
win_read_env ==
    /\ win_read
    /\ hist' = [hist EXCEPT !.readResult =
                   IF ReadFile = "success"
                     THEN [n |-> Len(ReadChunk(inst.buf)), error |-> "none"]
                     ELSE [n |-> 0, error |-> ReadFile]]

\* ReadFile fails with error
win_read_reports(error) ==
    /\ wn.pc = "read"
    /\ wn' = WnAfterReadFile(error)
    /\ hist' = [hist EXCEPT !.readResult = [n |-> 0, error |-> error]]
    /\ UNCHANGED <<ww, inst>>

winFrameEnv == <<fs, m_pipePath, m_break, lifeVars, ioVars, m_handle, ds, guards>>

NextBoth ==
    \/ PIPE_PLATFORM_UNIX /\ \E t \in Timeouts :
          read_open_env(t) /\ UNCHANGED <<winVars, ds, guards>>
    \/ PIPE_PLATFORM_UNIX /\ read_poll_env /\ UNCHANGED <<winVars, ds, guards>>
    \/ PIPE_PLATFORM_UNIX /\ read_poll_fails /\ UNCHANGED <<winVars, sharedVars>>
    \/ PIPE_PLATFORM_UNIX /\ read_check /\ UNCHANGED <<winVars, sharedVars>>
    \/ PIPE_PLATFORM_UNIX /\ read_drain_env /\ UNCHANGED <<winVars, ds, guards>>
    \/ PIPE_PLATFORM_UNIX /\ \E errno \in OtherErrnos :
          read_drain_fails(errno) /\ UNCHANGED <<winVars, ds, guards>>
    \/ PIPE_PLATFORM_UNIX /\ read_close /\ UNCHANGED <<winVars, sharedVars>>
    \/ PIPE_PLATFORM_UNIX /\ \E p \in Paths, m \in EnvMessages, t \in Timeouts :
          write_call(p, m, t) /\ UNCHANGED <<winVars, sharedVars>>
    \/ PIPE_PLATFORM_UNIX /\ write_open /\ UNCHANGED <<winVars, sharedVars>>
    \/ PIPE_PLATFORM_UNIX /\ write_write_env /\ UNCHANGED <<winVars, ds, guards>>
    \/ PIPE_PLATFORM_UNIX /\ write_close /\ UNCHANGED <<winVars, sharedVars>>
    \/ PIPE_PLATFORM_UNIX /\ interrupt /\ UNCHANGED <<winVars, sharedVars>>
    \/ PIPE_PLATFORM_WINDOWS /\ \E t \in WinTimeouts : win_read_call(t) /\ UNCHANGED winFrame
    \/ PIPE_PLATFORM_WINDOWS /\ win_connect /\ UNCHANGED winFrame
    \/ PIPE_PLATFORM_WINDOWS /\ win_connect_wait /\ UNCHANGED winFrame
    \/ PIPE_PLATFORM_WINDOWS /\ win_read_env /\ UNCHANGED winFrameEnv
    \/ PIPE_PLATFORM_WINDOWS /\ \E error \in ReportedErrors :
          win_read_reports(error) /\ UNCHANGED winFrameEnv
    \/ PIPE_PLATFORM_WINDOWS /\ win_read_wait /\ UNCHANGED winFrame
    \/ PIPE_PLATFORM_WINDOWS /\ win_budget /\ UNCHANGED winFrame
    \/ PIPE_PLATFORM_WINDOWS /\ win_disconnect /\ UNCHANGED winFrame
    \/ PIPE_PLATFORM_WINDOWS /\ \E p \in Paths, m \in Messages, t \in WinTimeouts, w \in BOOLEAN :
          win_write_call(p, m, t, w) /\ UNCHANGED winFrame
    \/ PIPE_PLATFORM_WINDOWS /\ win_write_wait /\ UNCHANGED winFrame
    \/ PIPE_PLATFORM_WINDOWS /\ win_write_open /\ UNCHANGED winFrame
    \/ PIPE_PLATFORM_WINDOWS /\ win_write_file /\ UNCHANGED winFrame
    \/ PIPE_PLATFORM_WINDOWS /\ win_written_wait /\ UNCHANGED winFrame
    \/ PIPE_PLATFORM_WINDOWS /\ win_write_close /\ UNCHANGED winFrame
    \/ PIPE_PLATFORM_WINDOWS /\ interrupt /\ UNCHANGED <<winVars, sharedVars>>

SpecBoth == InitBoth /\ [][NextBoth]_vars

\* ---- successive sessions of the Windows backend: a thread that calls
\* ---- read_blocking again and again, and a thread that calls write again
\* ---- and again

\* the calls of write
MaxSessions == 2

\* the empty message, a short one, a full buffer, and more than a buffer
SessionMessages ==
    {<< >>, <<42>>, Ramp(PIPE_BUFFER_SIZE), Ramp(PIPE_BUFFER_SIZE + MaxOver)}

\* the reading thread calls read_blocking (tests/IO.cpp, IOTest::readLoop)
win_read_again(t) ==
    /\ wn.calls <= MaxSessions
    /\ win_read_enter(t)

\* the writing thread calls write
win_write_again(pipePath, message, t, wait) ==
    /\ ww.calls < MaxSessions
    /\ win_write_enter(pipePath, message, t, wait)

\* WriteFile, with the message recorded when the instance takes it
win_write_file_recorded ==
    /\ win_write_file
    /\ hist' = IF inst.state = "connected"
                THEN [hist EXCEPT !.written = Append(@, ww.message)] ELSE hist

\* DisconnectNamedPipe and the return, with the returned message recorded
win_disconnect_recorded ==
    /\ win_disconnect
    /\ hist' = [hist EXCEPT !.received = Append(@, wn.message)]

NextSessions ==
    \/ \E t \in WinTimeouts : win_read_again(t) /\ UNCHANGED winFrame
    \/ win_connect /\ UNCHANGED winFrame
    \/ win_connect_wait /\ UNCHANGED winFrame
    \/ win_read /\ UNCHANGED winFrame
    \/ win_read_wait /\ UNCHANGED winFrame
    \/ win_budget /\ UNCHANGED winFrame
    \/ win_disconnect_recorded /\ UNCHANGED winFrameEnv
    \/ \E p \in Paths, m \in SessionMessages, t \in WinTimeouts, w \in BOOLEAN :
          win_write_again(p, m, t, w) /\ UNCHANGED winFrame
    \/ win_write_wait /\ UNCHANGED winFrame
    \/ win_write_open /\ UNCHANGED winFrame
    \/ win_write_file_recorded /\ UNCHANGED winFrameEnv
    \/ win_written_wait /\ UNCHANGED winFrame
    \/ win_write_close /\ UNCHANGED winFrame

SpecSessions == InitWin /\ [][NextSessions]_vars

\* =============================================================== claims ====

Max(a, b) == IF a > b THEN a ELSE b

\* the last read_blocking call has returned a message (and is leaving or has left)
ReadReturned == rd.outcome = "ok" /\ rd.pc \in {"unwind", "idle"}

ReturnedMessage == IF rd.pc = "unwind" THEN rd.message ELSE rd.result

\* exactly one write call was made, it put its bytes and raised nothing
SingleWriteDone == wr.calls = 1 /\ wr.outcome = "ok"

\* the read_blocking call that had the read end open when the bytes arrived
Listening == rd.calls = wr.deliveredTo

\* C1 (round trip): after a single successful write of a non-empty message B,
\* the read_blocking call that is listening (it holds the read end when the
\* bytes arrive and polls the pipe afterwards) returns exactly B: every poll
\* it makes from then on finds the pipe readable, what it has drained so far
\* followed by what is left in the pipe is B, and every message a
\* read_blocking returns is B. A call that holds the read end at the arrival
\* ends otherwise only when its last poll was made before the bytes arrived.
C1_RoundTrip ==
    (SingleWriteDone /\ wr.message # << >>) =>
        /\ ReadReturned => ReturnedMessage = wr.message
        /\ (Listening /\ rd.pc = "poll") => Readable(rd.handle)
        /\ (Listening /\ rd.pc \in {"poll", "read"})
              => rd.message \o fifo[rd.handle] = wr.message
        /\ (Listening /\ rd.pc = "check") => rd.polls = wr.deliveredAtPoll
        /\ (Listening /\ rd.pc = "unwind" /\ rd.outcome # "ok")
              => (rd.outcome \in {"Timeout", "Interrupt"} /\ rd.polls = wr.deliveredAtPoll)

\* a message longer than the drain buffer, holding 0 and 255, made the round trip
C1_Witness ==
    /\ SingleWriteDone /\ wr.pc = "idle"
    /\ rd.pc = "idle" /\ rd.outcome = "ok" /\ rd.calls = 1
    /\ rd.result = wr.message
    /\ Len(rd.result) > PIPE_BUFFER_SIZE
    /\ \E i, j \in 1 .. Len(rd.result) : rd.result[i] = 0 /\ rd.result[j] = 255

\* C2 (order independence): in either order of the two calls, write passes its
\* open only while a read end is open and its write succeeds while the reader
\* still listens (it never delivers into the void), a write that finds no
\* read end keeps retrying and raises Timeout only at an attempt that finds
\* none after its whole budget is used, and the read_blocking that was
\* listening finds the pipe readable at its next poll and returns the written
\* (non-empty) message.
C2_OrderIndependence ==
    [][/\ (wr.pc = "open" /\ wr'.pc = "write")
             => (wr'.heard /\ exists(wr.pipePath) /\ readEnds[wr.pipePath] > 0)
       /\ (wr.pc = "write" /\ wr'.outcome = "ok") => readEnds[wr.handle] > 0
       /\ (wr.pc = "write" /\ wr'.pc # "write" /\ readEnds[wr.handle] > 0)
             => wr'.outcome = "ok"
       /\ (wr.pc = "open" /\ wr'.pc = "unwind")
             => /\ ~CanOpenForWrite(wr.pipePath)
                /\ wr'.outcome = "Timeout"
                /\ wr'.attempts = Max(1, wr.budget \div PIPE_WRITE_WAIT_INTERVAL)
       /\ (wr.pc = "open" /\ CanOpenForWrite(wr.pipePath) /\ wr'.pc # "open")
             => wr'.pc = "write"
       /\ (SingleWriteDone /\ wr.message # << >> /\ Listening
              /\ rd.pc = "poll" /\ rd'.pc # "poll")
             => rd'.pc = "read"
       /\ (wr'.outcome = "ok" /\ wr'.calls = 1)
             => /\ wr'.deliveredTo >= 1
                /\ (ReadReturned' /\ rd'.calls = wr'.deliveredTo)
                      => ReturnedMessage' = wr'.message]_vars

\* write began first, found no read end, retried, and both calls succeeded
C2_Witness ==
    /\ SingleWriteDone /\ wr.pc = "idle" /\ ~wr.listenerAtStart
    /\ rd.pc = "idle" /\ rd.outcome = "ok" /\ rd.calls = 1
    /\ rd.result = wr.message /\ wr.message = <<0, 1, 2, 255, 254>>

\* C3 (read timeout): while no write was ever called and interrupt() was
\* never called, a read_blocking(T) on the valid pipe polls at most
\* max(1, T / PIPE_WAIT_INTERVAL) times and ends in no other way than by
\* raising Timeout, which it does with its budget used up.
C3_ReadTimeout ==
    (wr.calls = 0 /\ ~m_break[Pipe]) =>
        /\ rd.outcome \in {"none", "running", "Timeout"}
        /\ rd.polls <= Max(1, rd.budget \div PIPE_WAIT_INTERVAL)
        /\ rd.pc = "check" => rd.timeout = rd.budget - (rd.polls - 1) * PIPE_WAIT_INTERVAL
        /\ (rd.pc = "unwind" /\ rd.outcome = "Timeout")
              => /\ rd.timeout <= PIPE_WAIT_INTERVAL
                 /\ rd.polls = Max(1, rd.budget \div PIPE_WAIT_INTERVAL)

\* a read with the largest budget timed out without writer and without interrupt
C3_Witness ==
    /\ wr.calls = 0 /\ ~m_break[Pipe]
    /\ rd.pc = "unwind" /\ rd.outcome = "Timeout"
    /\ rd.budget = MaxTimeout /\ rd.polls = MaxTimeout \div PIPE_WAIT_INTERVAL

\* C4 (write timeout): a write during whose whole call no read end of its
\* path was open (the path has no entry, or nobody reads) ends by raising
\* Timeout, puts no byte into a pipe and leaves the file system as it was.
C4_WriteTimeout ==
    (wr.pc = "unwind" /\ ~wr.heard) =>
        /\ wr.outcome = "Timeout"
        /\ wr.handle = EmptyPath
        /\ fifo[wr.pipePath] = << >>
        /\ fs = wr.fsAtStart

\* both cases happen: the path has no entry; the pipe exists without reader
C4_Witness ==
    /\ wr.pc = "unwind" /\ ~wr.heard /\ wr.outcome = "Timeout"
    /\ wr.message # << >> /\ wr.budget = MaxTimeout
    /\ exists(wr.pipePath) /\ readEnds[wr.pipePath] = 0

\* C5 (interrupt of a waiting read): when the wait loop of read_blocking
\* loads m_break after interrupt() has set it (the poll before found the pipe
\* not readable), the call raises Interrupt there, neither Timeout nor a
\* return; so at most one poll of a call begins after the flag is set.
C5_InterruptWaitingRead ==
    [][/\ (rd.pc = "check" /\ m_break[Pipe] /\ rd' # rd)
             => (rd'.pc = "unwind" /\ rd'.outcome = "Interrupt")
       /\ (rd.pc = "check" /\ rd'.pc = "unwind" /\ rd'.outcome # "Interrupt")
             => (~m_break[Pipe] /\ rd'.outcome = "Timeout")
       /\ rd'.pollsAfterBreak <= 1]_vars

\* interrupt() came while the call was in its wait loop (a poll had begun
\* without the flag), and the call raised Interrupt with budget left
C5_Witness ==
    /\ rd.pc = "unwind" /\ rd.outcome = "Interrupt"
    /\ rd.polls >= 1 /\ rd.pollsAfterBreak < rd.polls
    /\ rd.timeout > PIPE_WAIT_INTERVAL

\* the lifecycle step just taken was made by destroy() or the destructor on o
DestroyStep(o) == lastOp'.op \in {"destroy", "~NamedPipe"} /\ lastOp'.obj = o

\* C6 (destroy removes the entry): a destroy() of a valid object, called
\* directly or by the destructor, leaves no entry at the object's path
\* (exists is false), leaves the object invalid with an empty path, and a
\* create() on that path would succeed.
C6_DestroyRemovesEntry ==
    [][\A o \in Objects, p \in Paths :
          (DestroyStep(o) /\ alive[o] /\ m_pipePath[o] = p)
             => /\ ~(exists(p))'
                /\ (getPath(o))' = EmptyPath
                /\ ~(valid(o))'
                /\ (mkfifo(p))' = 0]_vars

\* a valid object was destroyed, its path is free again
C6_Witness ==
    /\ lastOp.op = "destroy" /\ lastOp.path # EmptyPath /\ ~lastOp.again
    /\ ~exists(lastOp.path) /\ alive[lastOp.obj] /\ ~valid(lastOp.obj)

\* C7 (destroy is idempotent): a destroy() (or destructor) on an object that
\* destroy() already ran on, or that is invalid (default-constructed,
\* moved-from), changes neither the file system nor any object's path, and
\* raises nothing; a pipe another object created at the former path stays.
C7_DestroyIdempotent ==
    [][\A o \in Objects :
          (DestroyStep(o) /\ alive[o] /\ (destroyed[o] \/ ~valid(o)))
             => /\ fs' = fs
                /\ \A x \in Objects : alive'[x] => m_pipePath'[x] = m_pipePath[x]
                /\ lastOp'.result = "ok"]_vars

\* a second destroy() ran while another object owns a pipe at the same path
C7_Witness ==
    /\ lastOp.op = "destroy" /\ lastOp.again
    /\ \E x \in Objects : x # lastOp.obj /\ alive[x] /\ valid(x) /\ exists(getPath(x))
    /\ fs = Paths

\* C8 (create fails on an existing entry): create(path) raises the OS error
\* "Create" exactly when an entry exists at path, and then the file system,
\* every object and the set of objects are as before; otherwise it returns
\* a valid object for a new entry at path.
C8_CreateFailsIfExists ==
    [][\A o \in Objects, p \in Paths :
          (lastOp'.op = "create" /\ lastOp'.obj = o /\ lastOp'.path = p /\ ~alive[o])
             => IF exists(p)
                  THEN /\ lastOp'.result = "Create"
                       /\ fs' = fs /\ alive' = alive
                       /\ m_pipePath' = m_pipePath /\ m_break' = m_break
                  ELSE /\ lastOp'.result = "ok"
                       /\ fs' = fs \cup {p}
                       /\ alive'[o] /\ m_pipePath'[o] = p]_vars

\* a create failed on a path whose pipe a valid object owns
C8_Witness ==
    /\ lastOp.op = "create" /\ lastOp.result = "Create" /\ ~alive[lastOp.obj]
    /\ \E x \in Objects : alive[x] /\ getPath(x) = lastOp.path

\* C9 (existence invariant): every constructed valid object has an entry at
\* its path (exists(getPath()) is true), and right after a successful
\* create(path), exists(path) is true.
C9_ValidImpliesExists ==
    /\ \A o \in Objects : (alive[o] /\ valid(o)) => exists(getPath(o))
    /\ (lastOp.op = "create" /\ lastOp.result = "ok") => exists(lastOp.path)

\* a valid object was destroyed while another valid object keeps its entry
C9_Witness ==
    /\ lastOp.op = "destroy" /\ lastOp.path # EmptyPath
    /\ \E x \in Objects : alive[x] /\ valid(x) /\ exists(getPath(x))

\* C10 (unique ownership): no two constructed valid objects hold the same path.
C10_UniqueOwner ==
    \A a \in Objects, b \in Objects :
        (a # b /\ alive[a] /\ alive[b] /\ valid(a) /\ valid(b)) => getPath(a) # getPath(b)

\* after a move of a valid object two valid objects exist, on different paths
C10_Witness ==
    /\ lastOp.op \in {"move", "operator="} /\ lastOp.path # EmptyPath
    /\ Cardinality({o \in Objects : alive[o] /\ valid(o)}) = 2

\* the lifecycle step just taken moved the pipe of the valid object s into d
MoveStep(d, s) ==
    /\ lastOp'.op \in {"move", "operator="} /\ lastOp'.obj = d
    /\ d # s /\ alive[s] /\ valid(s) /\ lastOp'.path = m_pipePath[s]

\* C11 (move semantics): after a move-construction or move-assignment from
\* the valid object S into D, D holds S's former path, S has an empty path,
\* is invalid and has its interrupt flag false, and a destroy() of S would
\* leave the file system as it is (it does not remove D's pipe).
C11_MoveSemantics ==
    [][\A d \in Objects, s \in Objects :
          MoveStep(d, s)
             => /\ (getPath(d))' = m_pipePath[s]
                /\ (getPath(s))' = EmptyPath
                /\ ~(valid(s))'
                /\ ~m_break'[s]
                /\ (RemovedFs(s))' = fs']_vars

\* C13 (the interrupt flag is sticky): once the flag of an object is set, no
\* operation on the object resets it while the object lives.
C13_FlagSticky ==
    [][\A o \in Objects : (alive[o] /\ m_break[o] /\ alive'[o]) => m_break'[o]]_vars

\* C19 (no orphaned pipe): every pipe that exists is owned by a constructed
\* valid object; hence no pipe exists once no object is valid.
C19_NoOrphanedPipe ==
    \A p \in fs : \E o \in Objects : alive[o] /\ valid(o) /\ getPath(o) = p

\* C14 (empty message): after a single successful write of the empty message,
\* a read_blocking that held the read end when the write was made and has
\* polled since (interrupt() not called) ends by returning an empty message.
C14_EmptyMessage ==
    (/\ SingleWriteDone /\ wr.message = << >>
     /\ Listening /\ rd.polls > wr.deliveredAtPoll /\ ~m_break[Pipe]
     /\ rd.pc = "unwind")
        => (rd.outcome = "ok" /\ rd.message = << >>)

\* the bytes of the single successful write are in the pipe or in the hands
\* of the read_blocking that drains them
InTransit == rd.message \o fifo[wr.pipePath] = wr.message

\* C15 (no lost message): the bytes of a write that returned without raising
\* stay in the pipe, or with the read_blocking that drains them, until a
\* read_blocking returns them; no step makes them disappear.
C15_NoLostMessage ==
    [][(/\ SingleWriteDone /\ SingleWriteDone' /\ wr.message # << >>
        /\ wr.pipePath = m_pipePath[Pipe] /\ InTransit)
          => \/ InTransit'
             \/ rd'.pc = "idle" /\ rd'.outcome = "ok" /\ rd'.result = wr.message]_vars

\* C12 as stated (interrupt is idempotent; one interrupt makes one read raise
\* Interrupt, not several): once interrupt() was called the flag is set, and
\* no more calls of read_blocking have raised Interrupt than calls of
\* interrupt() were made.
C12_InterruptOnce ==
    /\ hist.interrupts >= 1 => m_break[Pipe]
    /\ hist.interrupted <= hist.interrupts

\* C12 as amended: every call of interrupt() succeeds and leaves the flag
\* set and everything else as it was (a further call changes nothing); no
\* I/O operation resets the flag; and from the first call on, every load of
\* the flag in a wait loop of read_blocking, in the outstanding call and in
\* every later one, raises Interrupt.
C12_InterruptIdempotentSticky ==
    [][/\ hist'.interrupts = hist.interrupts + 1
             => /\ m_break' = [m_break EXCEPT ![Pipe] = TRUE]
                /\ UNCHANGED <<fs, m_pipePath, alive, ioVars>>
       /\ hist.interrupts >= 1 => (m_break[Pipe] /\ m_break'[Pipe])
       /\ (hist.interrupts >= 1 /\ rd.pc = "check" /\ rd'.pc # "check")
             => /\ rd'.outcome = "Interrupt"
                /\ hist'.interrupted = hist.interrupted + 1]_vars

\* one call of interrupt(), and two calls of read_blocking raised Interrupt
C12_Witness == hist.interrupts = 1 /\ hist.interrupted = 2

RECURSIVE Concat(_)
\* the messages of a sequence of writes, one after the other
Concat(messages) ==
    IF messages = << >> THEN << >> ELSE Head(messages) \o Concat(Tail(messages))

C20_OnlyFlagShared ==
    [][(rd.pc # "idle" /\ rd' = rd)
          => (m_pipePath'[Pipe] = m_pipePath[Pipe] /\ m_handle'[Pipe] = m_handle[Pipe])]_vars

\* C18: on the Windows backend read_blocking examines the interrupt flag
\* between its blocking phases: a round of the wait for the pending connect,
\* and a round of the read retry loop, that finds the flag set while no
\* client has connected ends the call with Interrupt, instead of going on
\* until Timeout.
C18_WindowsInterrupt ==
    [][(/\ wn.pc \in {"connect_wait", "budget"}
        /\ m_break[Pipe]
        /\ inst.state = "listening"
        /\ wn' # wn)
       => wn'.outcome = "Interrupt"]_vars

\* C17: destroy() first sets the interrupt flag, then removes the pipe, then
\* clears the path; from the moment destroy() has been called, a read that
\* waits on the object (POSIX: at the test of the flag after an idle poll;
\* Windows: in the wait for the pending connect) stops waiting and raises
\* Interrupt rather than going on until its timeout.
C17_DestroyInterrupts ==
    [][/\ (fs' # fs /\ ds' # ds) => m_break[Pipe]
       /\ m_pipePath'[Pipe] # m_pipePath[Pipe]
            => (m_break[Pipe] /\ m_pipePath[Pipe] \notin fs)
       /\ (ds.pc # "idle" /\ rd.pc = "check" /\ rd' # rd)
            => rd'.outcome = "Interrupt"
       /\ (ds.pc # "idle" /\ wn.pc = "connect_wait" /\ wn' # wn)
            => wn'.outcome = "Interrupt"]_vars

\* the polls of the call in progress that reported the pipe not readable
UnreadablePolls ==
    IF rd.pc = "read" \/ (rd.pc = "unwind" /\ rd.outcome = "ok")
      THEN rd.polls - 1 ELSE rd.polls

\* C21: with timeout T, write makes at most max(1, T/I) open attempts and
\* read_blocking at most max(1, T/I) polls that report the pipe not readable
\* (I the polling interval); a call that has left its loop has made at least
\* one attempt, so with T = 0 exactly one; and every call of write and of
\* read_blocking ends (the callers make finitely many calls, so the writers
\* eventually stop writing).
C21_BoundedWaiting ==
    /\ [](wr.attempts <= Max(1, wr.budget \div PIPE_WRITE_WAIT_INTERVAL))
    /\ [](UnreadablePolls <= Max(1, rd.budget \div PIPE_WAIT_INTERVAL))
    /\ [](wr.pc \in {"write", "unwind"} => wr.attempts >= 1)
    /\ [](rd.pc \in {"check", "read", "unwind"} => rd.polls >= 1)
    /\ (rd.pc # "idle" ~> rd.pc = "idle")
    /\ (wr.pc # "idle" ~> wr.pc = "idle")

\* a write and a read_blocking with timeout 0 have given up after one attempt,
\* and calls with the largest timeout after that many attempts
C21_Witness ==
    /\ wr.pc = "unwind" /\ wr.outcome = "Timeout"
    /\ wr.budget = MaxTimeout /\ wr.attempts = MaxTimeout
    /\ rd.pc = "unwind" /\ rd.outcome = "Timeout"
    /\ rd.budget = 0 /\ rd.polls = 1

\* C22: within one call of read_blocking or write the remaining budget never
\* increases; it changes only after an unsuccessful attempt that does not end
\* the call, and then by exactly one polling interval, leaving a positive
\* rest (Timeout is raised instead of a decrement that would use up the last
\* interval); so it is never negative. The budget belongs to the call: a new
\* call starts with the timeout passed to it, and the steps of one call leave
\* the budget of the other thread's call alone.
C22_TimeoutBudget ==
    [][/\ rd'.timeout >= 0 /\ wr'.timeout >= 0
       /\ (rd.pc # "idle" /\ rd'.pc # "idle") =>
             rd'.timeout = IF rd.pc = "check" /\ rd'.pc = "poll"
                             THEN rd.timeout - PIPE_WAIT_INTERVAL ELSE rd.timeout
       /\ (wr.pc # "idle" /\ wr'.pc # "idle") =>
             wr'.timeout = IF wr'.attempts > wr.attempts /\ wr'.pc = "open"
                             THEN wr.timeout - PIPE_WRITE_WAIT_INTERVAL ELSE wr.timeout
       /\ rd'.timeout < rd.timeout /\ rd'.pc # "idle" => rd'.timeout > 0
       /\ wr'.timeout < wr.timeout /\ wr'.pc # "idle" => wr'.timeout > 0
       /\ (rd.pc = "idle" /\ rd'.pc # "idle") => rd'.timeout = rd'.budget
       /\ (wr.pc = "idle" /\ wr'.pc # "idle") => wr'.timeout = wr'.budget
       /\ rd' # rd /\ wr.pc # "idle" => wr'.timeout = wr.timeout
       /\ wr' # wr /\ rd.pc # "idle" => rd'.timeout = rd.timeout]_vars

\* a write has used up its budget to the last interval, while the second
\* call of read_blocking has the whole budget it was given
C22_Witness ==
    /\ wr.pc = "open" /\ wr.budget = MaxTimeout /\ wr.timeout = PIPE_WRITE_WAIT_INTERVAL
    /\ rd.calls = 2 /\ rd.pc = "poll" /\ rd.budget = MaxTimeout /\ rd.timeout = MaxTimeout

\* C23: in write and read_blocking (POSIX) every descriptor that ::open
\* returned is released exactly once before the call exits, by whatever path
\* (return, Timeout, Interrupt, OS error): a call opens at most one
\* descriptor; the release function is never called more often than
\* descriptors were opened, and never on the invalid handle (the failed opens
\* of the retry loop, a failed open of read_blocking); the descriptor is
\* still unreleased while the call uses it; and when no call is in progress
\* as many were released as opened, and the kernel has no end of a FIFO open.
C23_HandleRelease ==
    /\ \A t \in {"rd", "wr"} :
          /\ guards[t].opened <= 1
          /\ guards[t].released <= guards[t].opened
          /\ guards[t].releasedInvalid = 0
    /\ wr.pc = "write" => guards["wr"].opened = 1 /\ guards["wr"].released = 0
    /\ rd.pc \in {"poll", "check", "read"} =>
          guards["rd"].opened = 1 /\ guards["rd"].released = 0
    /\ wr.pc = "idle" => guards["wr"].released = guards["wr"].opened
    /\ rd.pc = "idle" => guards["rd"].released = guards["rd"].opened
    /\ (rd.pc = "idle" /\ wr.pc = "idle") =>
          \A p \in Paths : readEnds[p] = 0 /\ writeEnds[p] = 0

\* a write has ended with an OS error after its open succeeded, a
\* read_blocking has ended with Interrupt, and each has released its
\* descriptor
C23_Witness ==
    /\ wr.pc = "idle" /\ wr.outcome = "Write"
    /\ guards["wr"].opened = 1 /\ guards["wr"].released = 1
    /\ rd.pc = "idle" /\ rd.outcome = "Interrupt"
    /\ guards["rd"].opened = 1 /\ guards["rd"].released = 1

\* C24: in the wait loop of read_blocking (POSIX) the flag is tested before
\* the budget on every poll that reports the pipe not readable: when the flag
\* is set and the budget is used up in the same iteration the call raises
\* Interrupt, not Timeout; Timeout is raised only on an iteration where the
\* flag is not set (and the budget is used up); and the loop goes on to the
\* next poll only when the flag is not set.
C24_InterruptBeforeTimeout ==
    [][(rd.pc = "check" /\ rd' # rd) =>
         /\ (m_break[Pipe] /\ ~ReadBudgetLeft(rd.timeout)) => rd'.outcome = "Interrupt"
         /\ rd'.outcome = "Timeout" => (~m_break[Pipe] /\ ~ReadBudgetLeft(rd.timeout))
         /\ rd'.pc = "poll" => ~m_break[Pipe]]_vars

\* a call that was given the largest budget has raised Interrupt in the
\* iteration in which that budget was used up
C24_Witness ==
    /\ rd.pc = "unwind" /\ rd.outcome = "Interrupt"
    /\ rd.budget = MaxTimeout /\ ~ReadBudgetLeft(rd.timeout)
    /\ rd.polls = MaxTimeout

\* C25: conditions that are not errors. POSIX: a ::read of the drain loop that
\* returns 0, or -1 with EAGAIN, ends the message without an exception and
\* leaves the accumulated bytes as they are, and these bytes are what the call
\* returns; a ::read that returns -1 with another error raises the OS error
\* "Read". Windows: a ReadFile that reports ERROR_PIPE_LISTENING raises
\* nothing; with no byte accumulated the call goes to the budget test, which
\* lets it read again with the budget one interval shorter, or raises Timeout
\* when the budget is used up.
C25_NotErrors ==
    [][/\ (rd.pc = "read" /\ rd' # rd) =>
            LET r == hist'.readResult IN
            /\ (r.n = 0 \/ (r.n = -1 /\ r.error = "EAGAIN")) =>
                  (rd'.pc = "unwind" /\ rd'.outcome = "ok" /\ rd'.message = rd.message)
            /\ (r.n = -1 /\ r.error # "EAGAIN") =>
                  (rd'.pc = "unwind" /\ rd'.outcome = "Read")
       /\ (rd.pc = "unwind" /\ rd.outcome = "ok" /\ rd' # rd) => rd'.result = rd.message
       /\ (wn.pc = "read" /\ wn' # wn /\ hist'.readResult.error = "ERROR_PIPE_LISTENING") =>
            /\ wn'.outcome = "running"
            /\ wn.message = << >> => wn'.pc = "budget"
       /\ (wn.pc = "budget" /\ wn' # wn) =>
            IF ReadBudgetLeft(wn.timeout)
              THEN wn'.pc = "read" /\ wn'.timeout = wn.timeout - PIPE_WAIT_INTERVAL
              ELSE wn'.outcome = "Timeout"]_vars

\* a drain loop that had taken more than one buffer of bytes has ended on
\* EAGAIN (the writer still holds its end) and the call returns the bytes
C25_Witness ==
    /\ rd.pc = "unwind" /\ rd.outcome = "ok"
    /\ hist.readResult = [n |-> -1, error |-> "EAGAIN"]
    /\ Len(rd.message) > PIPE_BUFFER_SIZE


\* C26: write is all-or-error: once the pipe is open, write returns normally
\* only if the pipe accepted all messageSize bytes of the caller's range in
\* its single ::write; when the pipe accepts fewer bytes, or the write
\* fails, the call raises "Write"
C26_AllOrError ==
    (wr.pc = "unwind" /\ wr.outcome = "ok") => hist.accepted = Len(wr.message)


\* C29: a normal return of read_blocking (POSIX) implies that a readiness
\* poll of that call reported the pipe readable: when ::poll itself fails,
\* read_blocking raises, and does not leave the wait loop to return an
\* empty message
C29_ReturnImpliesReadable ==
    (rd.pc = "unwind" /\ rd.outcome = "ok") => hist.readable


\* the read of this step has reported a broken pipe: ReadFile at once, or
\* the wait for the pending read (the client has closed its end and no
\* byte is left)
C28_BrokenPipeReported ==
    \/ wn.pc = "read" /\ wn' # wn /\ hist'.readResult.error = "ERROR_BROKEN_PIPE"
    \/ wn.pc = "read_wait" /\ wn' # wn /\ inst.state = "closing" /\ inst.buf = << >>

\* the read of this step has failed with an error that is neither a broken
\* pipe nor the listening report nor a pending read
C28_OtherErrorReported ==
    /\ wn.pc = "read" /\ wn' # wn
    /\ hist'.readResult.error \notin
          {"none", "ERROR_IO_PENDING", "ERROR_BROKEN_PIPE", "ERROR_PIPE_LISTENING"}

\* C28 (part): a broken pipe with no byte accumulated sends the call to
\* disconnect and reconnect, with its budget as it was and nothing raised;
\* with bytes accumulated it ends the message, and these bytes are returned
C28_BrokenPipe ==
    [][/\ C28_BrokenPipeReported =>
            IF wn.message = << >>
              THEN /\ wn'.pc = "connect" /\ wn'.reconnect
                   /\ wn'.outcome = "running" /\ wn'.timeout = wn.timeout
              ELSE wn'.pc = "disconnect" /\ wn'.message = wn.message
       /\ (wn.pc = "disconnect" /\ wn' # wn) =>
            (wn'.outcome = "ok" /\ wn'.result = wn.message)]_vars

\* C28 (part): any other read error raises the OS error "Read"
C28_OtherErrorsRaise ==
    [][C28_OtherErrorReported => (wn'.pc = "idle" /\ wn'.outcome = "Read")]_vars

\* C28: Windows broken-pipe recovery: a read that reports a broken pipe
\* before any byte of the message is accumulated makes read_blocking
\* disconnect, reconnect and read again under the budget that is left,
\* with no OS error raised; with bytes accumulated the broken pipe ends the
\* message and the bytes are returned; any other read error raises an
\* OS-error exception
C28_BrokenPipeRecovery == C28_BrokenPipe /\ C28_OtherErrorsRaise


\* C27: Windows session cycling: a read_blocking that returns a message
\* leaves the server handle disconnected (never connected to the client
\* whose message it returned), so of successive calls of write and
\* read_blocking on one object the k-th read that returns gives the k-th
\* message written
C27_SessionCycling ==
    /\ [][(wn.pc = "disconnect" /\ wn'.pc = "idle") => inst'.state = "disconnected"]_vars
    /\ [](\A k \in 1 .. Len(hist.received) :
             k <= Len(hist.written) /\ hist.received[k] = hist.written[k])

====
